---- MODULE Spec2Model ----
(***************************************************************************)
(* Model of the scrape orchestration core of newbuild-scraper:             *)
(* the SQLite persistence layer (cache/backoff, price history, product     *)
(* issues and auto-remediation), the catalog sync and the run loop of      *)
(* main.py.  Time is counted in whole hours.                               *)
(***************************************************************************)
EXTENDS Integers, Sequences, FiniteSets, TLC

(* ------------------------------ bounds -------------------------------- *)
MaxTime == 7
MaxAttempts == 8
MaxProductId == 2
MaxIssues == 2
MaxHistory == 1
MaxRuns == 2
MaxStoreHistory == 2
MaxStoreAttempts == 1
MaxLegacyCalls == 2

(* ------------------------- program constants -------------------------- *)
cache_duration_hours == 6
failed_cache_duration_hours == 24
BackoffCapHours == 24

NULL == -1

UrlAmazon == "https://www.amazon.fr/dp/A"
UrlIdealo == "https://www.idealo.fr/prix/1/amd-ryzen-7-pro.html"
UrlPcc == "https://www.pccomponentes.fr/b"
Urls == {UrlAmazon, UrlIdealo, UrlPcc}
CacheUrls == {UrlAmazon, UrlIdealo}
ExplicitRetryDelays == {2}
Names == {"A", "B"}
Categories == {"CPU", "GPU"}
IssueTypes == {"404_error", "name_mismatch", "scrape_error", "anti_bot"}
Prices == {10}

VARIABLES
    now,            \* wall-clock time, in hours
    cache,          \* rows of table cache
    products,       \* rows of table products
    urls,           \* rows of table urls
    price_history,  \* rows of table price_history
    product_issues, \* rows of table product_issues
    next_id,        \* AUTOINCREMENT counters of products, price_history, product_issues
    callCount,      \* history: update_cache calls made per URL
    pc,             \* position of the run of main.py: "idle", "scrape" or "save"
    run,            \* the locals of the run: its rows, loop indexes, updated_rows
    successLog,     \* history: the successes recorded by save_scraping_results
    imported,       \* history: the last import (catalog and returned counts),
                    \* while no product row was removed after it
    lastOp,         \* history: the last update_cache call (or the last
                    \* log_product_issue call of the legacy manager)
    malfunctioning_links, \* rows of table malfunctioning_links
    linkHist,       \* history: the URLs resolve_malfunctioning_link was called for
    arg,            \* the argument a pure helper is applied to
    result,         \* what the helper returned for arg
    workers,        \* concurrent runs of main.py on one database: for each
                    \* its position, its locals and (history) its fetches
    ci              \* scripts/ci_monitor.py and the workflow run GitHub reports

dbVars == <<products, urls, price_history, product_issues, next_id>>
auxVars == <<malfunctioning_links, linkHist, arg, result, workers, ci>>
vars == <<now, cache, products, urls, price_history, product_issues, next_id,
          pc, run, successLog, callCount, imported, lastOp,
          malfunctioning_links, linkHist, arg, result, workers, ci>>
runVars == <<pc, run, successLog>>

NoOp == [op |-> "none", url |-> "", success |-> FALSE, explicit |-> NULL, at |-> 0,
         n |-> 0]
NoImport == [catalog |-> <<>>, new_products |-> 0, new_urls |-> 0]

\* the monitor script is not running
NoMonitor == <<>>

(* ------------------------------ helpers ------------------------------- *)
Min(a, b) == IF a < b THEN a ELSE b

(* ------------------------- cache & backoff ---------------------------- *)
\* SELECT ... FROM cache WHERE url=?  (all matching rows)
CacheRows(c, url) == {r \in c : r.url = url}

\* fetchone(): some matching row
FetchOne(rows) == CHOOSE r \in rows : TRUE

is_url_cached_le(c, url, t) ==
    LET rows == CacheRows(c, url) IN
    IF rows = {} THEN FALSE
    ELSE LET row == FetchOne(rows) IN
         IF row.status = "success"
         THEN t <= row.last_scraped + row.cache_duration_hours
         ELSE IF row.status = "failed" /\ row.next_retry # NULL
              THEN t <= row.next_retry
              ELSE FALSE

is_url_cached(c, url, t) ==
    LET rows == CacheRows(c, url) IN
    IF rows = {} THEN FALSE
    ELSE LET row == FetchOne(rows) IN
         IF row.status = "success"
         THEN t < row.last_scraped + row.cache_duration_hours
         ELSE IF row.status = "failed" /\ row.next_retry # NULL
              THEN t < row.next_retry
              ELSE FALSE

backoff_hours_nocap(attempts) == 2 ^ (attempts - 1)

\* min(2 ** (attempts - 1), 24)
backoff_hours(attempts) == Min(2 ^ (attempts - 1), BackoffCapHours)

InsertPlain(c, row) == c \cup {row}

\* INSERT OR REPLACE INTO cache: url is UNIQUE, the conflicting row is deleted
InsertOrReplace(c, row) == {r \in c : r.url # row.url} \cup {row}

update_cache_no_backoff(c, url, success, explicit, t) ==
    LET rows == CacheRows(c, url)
        attempts == (IF rows # {} THEN FetchOne(rows).attempts ELSE 0) + 1
    IN InsertOrReplace(c, [url |-> url, last_scraped |-> t,
                           cache_duration_hours |->
                               IF success THEN cache_duration_hours
                               ELSE failed_cache_duration_hours,
                           status |-> IF success THEN "success" ELSE "failed",
                           attempts |-> attempts, next_retry |-> explicit])

\* update_cache(url, success, next_retry) at time t; explicit = NULL when
\* the caller passes no next_retry
update_cache(c, url, success, explicit, t) ==
    LET rows == CacheRows(c, url)
        attempts == (IF rows # {} THEN FetchOne(rows).attempts ELSE 0) + 1
        status == IF success THEN "success" ELSE "failed"
        cache_duration == IF success THEN cache_duration_hours
                          ELSE failed_cache_duration_hours
        next_retry == IF ~success /\ explicit = NULL
                      THEN t + backoff_hours(attempts)
                      ELSE explicit
    IN InsertOrReplace(c, [url |-> url, last_scraped |-> t,
                           cache_duration_hours |-> cache_duration,
                           status |-> status, attempts |-> attempts,
                           next_retry |-> next_retry])

Attempts(c, url) ==
    IF CacheRows(c, url) = {} THEN 0 ELSE FetchOne(CacheRows(c, url)).attempts


(* ------------------------------ database ------------------------------ *)
\* the five tables as one value
Db == [products |-> products, urls |-> urls, price_history |-> price_history,
       product_issues |-> product_issues, next_id |-> next_id]

\* CREATE_TABLES_SQL on a fresh file: every table empty
EmptyDb == [products |-> {}, urls |-> {}, price_history |-> {},
            product_issues |-> {},
            next_id |-> [products |-> 1, price_history |-> 1, product_issues |-> 1]]

\* SELECT id FROM products WHERE name=?
ProductByName(db, name) == {p \in db.products : p.name = name}

\* get_product_urls(name): only the ACTIVE urls of the product
get_product_urls(db, name) ==
    {u.url : u \in {x \in db.urls : x.active /\ \E p \in ProductByName(db, name) :
                                                    x.product_id = p.id}}

add_price_entry_upsert(db, product_name, url, price, t) ==
    LET rows == ProductByName(db, product_name) IN
    IF rows = {} THEN <<db, FALSE>>
    ELSE LET pid == (CHOOSE p \in rows : TRUE).id
             row == [id |-> db.next_id.price_history, product_id |-> pid,
                     url |-> url, price |-> price, scraped_at |-> t]
         IN <<[db EXCEPT !.price_history =
                            {h \in @ : h.product_id # pid \/ h.url # url} \cup {row},
                         !.next_id.price_history = @ + 1], TRUE>>

\* add_price_entry(product_name, url, price) at time t: <<db', returned bool>>
add_price_entry(db, product_name, url, price, t) ==
    LET rows == ProductByName(db, product_name) IN
    IF rows = {} THEN <<db, FALSE>>
    ELSE LET pid == (CHOOSE p \in rows : TRUE).id
             row == [id |-> db.next_id.price_history, product_id |-> pid,
                     url |-> url, price |-> price, scraped_at |-> t]
         IN <<[db EXCEPT !.price_history = @ \cup {row},
                         !.next_id.price_history = @ + 1], TRUE>>

\* log_product_issue(product_id, url, issue_type) at time t
log_product_issue(db, product_id, url, issue_type, t) ==
    [db EXCEPT !.product_issues = @ \cup
                  {[id |-> db.next_id.product_issues, product_id |-> product_id,
                    url |-> url, issue_type |-> issue_type, resolved |-> FALSE,
                    detected_at |-> t]},
               !.next_id.product_issues = @ + 1]

\* log_product_issue of the legacy manager (database/manager.py): the INSERT is
\* executed on a connection that is closed without conn.commit(), which
\* discards the pending transaction
legacy_log_product_issue(db, product_id, url, issue_type, t) ==
    LET conn == [committed |-> db,
                 pending |-> log_product_issue(db, product_id, url, issue_type, t)]
    IN conn.committed

\* get_product_issues(resolved): product_issues JOIN products, filtered
get_product_issues(db, resolved) ==
    {i \in db.product_issues :
        /\ \E p \in db.products : p.id = i.product_id
        /\ i.resolved = resolved}

\* resolve_product_issue(issue_id)
resolve_product_issue(db, issue_id) ==
    [db EXCEPT !.product_issues =
        {IF i.id = issue_id THEN [i EXCEPT !.resolved = TRUE] ELSE i : i \in @}]

deactivate_every_url(db, url) ==
    IF \E u \in db.urls : u.url = url
    THEN <<[db EXCEPT !.urls = {[u EXCEPT !.active = FALSE] : u \in @}], TRUE>>
    ELSE <<db, FALSE>>

\* deactivate_product_url(url): <<db', returned bool>>
deactivate_product_url(db, url) ==
    IF \E u \in db.urls : u.url = url
    THEN <<[db EXCEPT !.urls =
               {IF u.url = url THEN [u EXCEPT !.active = FALSE] ELSE u : u \in @}],
           TRUE>>
    ELSE <<db, FALSE>>

remove_product_no_cascade(db, product_id) ==
    IF ~\E p \in db.products : p.id = product_id THEN <<db, FALSE>>
    ELSE <<[db EXCEPT
              !.products = {p \in @ : p.id # product_id},
              !.product_issues =
                 {IF i.product_id = product_id THEN [i EXCEPT !.resolved = TRUE]
                  ELSE i : i \in @}], TRUE>>

\* remove_product_completely(product_id): <<db', returned bool>>; with
\* PRAGMA foreign_keys = ON the DELETE cascades to urls and price_history
remove_product_completely(db, product_id) ==
    IF ~\E p \in db.products : p.id = product_id THEN <<db, FALSE>>
    ELSE <<[db EXCEPT
              !.products = {p \in @ : p.id # product_id},
              !.urls = {u \in @ : u.product_id # product_id},
              !.price_history = {h \in @ : h.product_id # product_id},
              !.product_issues =
                 {IF i.product_id = product_id THEN [i EXCEPT !.resolved = TRUE]
                  ELSE i : i \in @}], TRUE>>

\* the body of the loop of auto_handle_critical_issues for one issue row
HandleIssue(db, issue, auto_remove) ==
    IF issue.issue_type = "404_error" /\ auto_remove
    THEN remove_product_completely(db, issue.product_id)[1]
    ELSE IF issue.issue_type = "name_mismatch"
    THEN LET d == deactivate_product_url(db, issue.url) IN
         IF d[2] THEN resolve_product_issue(d[1], issue.id) ELSE d[1]
    ELSE db

RECURSIVE HandleAll(_, _, _)
HandleAll(db, order, auto_remove) ==
    IF order = <<>> THEN db
    ELSE HandleAll(HandleIssue(db, Head(order), auto_remove), Tail(order), auto_remove)

\* the orders in which ORDER BY detected_at DESC may return the rows
DetectedAtDesc(rows) ==
    {s \in [1 .. Cardinality(rows) -> rows] :
        /\ \A i, j \in DOMAIN s : i # j => s[i] # s[j]
        /\ \A i, j \in DOMAIN s : i < j => s[i].detected_at >= s[j].detected_at}

RECURSIVE HandleAny(_, _, _)
HandleAny(db, order, auto_remove) ==
    IF order = <<>> THEN db
    ELSE LET issue == Head(order)
             d == deactivate_product_url(db, issue.url)
             db1 == IF issue.issue_type = "404_error" /\ auto_remove
                    THEN remove_product_completely(db, issue.product_id)[1]
                    ELSE IF d[2] THEN resolve_product_issue(d[1], issue.id) ELSE d[1]
         IN HandleAny(db1, Tail(order), auto_remove)

auto_handle_every_issue(db, order, auto_remove) == HandleAny(db, order, auto_remove)

\* auto_handle_critical_issues(auto_remove), the rows being returned in `order`
auto_handle_critical_issues(db, order, auto_remove) ==
    LET critical == SelectSeq(order,
                       LAMBDA i : i.issue_type \in {"404_error", "name_mismatch"})
    IN HandleAll(db, critical, auto_remove)

(* ---------------------------- catalog sync ---------------------------- *)
InsertUrlOrReplace(db, pid, url) ==
    [db EXCEPT !.urls = {u \in @ : u.url # url}
                           \cup {[product_id |-> pid, url |-> url, active |-> TRUE]}]

\* INSERT OR IGNORE INTO urls (product_id, url, site_name, active): url is UNIQUE
InsertUrlOrIgnore(db, pid, url) ==
    IF \E u \in db.urls : u.url = url THEN db
    ELSE [db EXCEPT !.urls = @ \cup {[product_id |-> pid, url |-> url, active |-> TRUE]}]

\* the inner loop of _sync_products over the urls of one catalog entry;
\* st = [db, new_products, new_urls]
RECURSIVE SyncUrls(_, _, _, _)
SyncUrls(st, pid, us, existing_urls) ==
    IF us = <<>> THEN st
    ELSE LET url == Head(us) IN
         IF url \in existing_urls THEN SyncUrls(st, pid, Tail(us), existing_urls)
         ELSE SyncUrls([st EXCEPT !.db = InsertUrlOrIgnore(@, pid, url),
                                  !.new_urls = @ + 1],
                       pid, Tail(us), existing_urls)

\* the outer loop of _sync_products; db0 is the database as read before the loop
RECURSIVE SyncLoop(_, _, _)
SyncLoop(st, prods, db0) ==
    IF prods = <<>> THEN st
    ELSE LET prod == Head(prods)
             existing == ProductByName(db0, prod.name)
             st1 == IF existing = {}
                    THEN [st EXCEPT
                            !.db.products = @ \cup
                                {[id |-> st.db.next_id.products, name |-> prod.name,
                                  category |-> prod.category]},
                            !.db.next_id.products = @ + 1,
                            !.new_products = @ + 1]
                    ELSE IF (CHOOSE p \in existing : TRUE).category # prod.category
                    THEN [st EXCEPT !.db.products =
                            {IF p.name = prod.name
                             THEN [p EXCEPT !.category = prod.category] ELSE p : p \in @}]
                    ELSE st
             pid == (CHOOSE p \in ProductByName(st1.db, prod.name) : TRUE).id
             existing_urls == IF existing = {} THEN {}
                              ELSE get_product_urls(db0, prod.name)
         IN SyncLoop(SyncUrls(st1, pid, prod.urls, existing_urls), Tail(prods), db0)

sync_products_mirror(db, prods) ==
    LET st == SyncLoop([db |-> db, new_products |-> 0, new_urls |-> 0], prods, db)
        listed == UNION {{prods[k].urls[n] : n \in DOMAIN prods[k].urls} :
                            k \in DOMAIN prods}
    IN [st EXCEPT !.db.urls = {u \in @ : u.url \in listed}]

\* _sync_products(db, products): [db, new_products, new_urls]
sync_products(db, prods) ==
    SyncLoop([db |-> db, new_products |-> 0, new_urls |-> 0], prods, db)

\* valid catalog documents (as returned by validate_products_payload)
EntriesA == {[name |-> "A", category |-> c, urls |-> us] :
                c \in Categories,
                us \in {<<UrlAmazon>>, <<UrlAmazon, UrlIdealo>>, <<UrlAmazon, UrlAmazon>>}}
EntriesB == {[name |-> "B", category |-> "GPU", urls |-> us] :
                us \in {<<UrlPcc>>, <<UrlAmazon, UrlPcc>>, <<UrlIdealo>>}}
Catalogs == {<<a>> : a \in EntriesA} \cup {<<b>> : b \in EntriesB}
            \cup {<<a, b>> : a \in EntriesA, b \in EntriesB}
            \cup {<<b, a>> : a \in EntriesA, b \in EntriesB}

NewNames(db, prods) ==
    {prods[k].name : k \in DOMAIN prods} \ {p.name : p \in db.products}

\* commit: the tables take the values of db
SetDb(db) ==
    /\ products' = db.products
    /\ urls' = db.urls
    /\ price_history' = db.price_history
    /\ product_issues' = db.product_issues
    /\ next_id' = db.next_id

(* ------------------------------ the run ------------------------------- *)
None == NULL

\* the domain a URL belongs to ("<domain>" in url)
DomainOf(url) ==
    CASE url = UrlAmazon -> "amazon.fr"
      [] url = UrlIdealo -> "idealo.fr"
      [] url = UrlPcc -> "pccomponentes.fr"

fallback_sites == {"topachat.com", "amazon.fr", "ldlc.com", "materiel.net"}

\* the locals of main() before the first run
NoRun == [id |-> 0, start |-> 0, rows |-> <<>>, i |-> 1, j |-> 1,
          updated_rows |-> <<>>, uncached |-> {}, skipped |-> {}, fetches |-> {},
          hist0 |-> 1]

\* (name, url) pairs in the order ORDER BY p.name / ORDER BY u.site_name
SortedPairs == << <<"A", UrlAmazon>>, <<"A", UrlIdealo>>, <<"A", UrlPcc>>,
                  <<"B", UrlAmazon>>, <<"B", UrlIdealo>>, <<"B", UrlPcc>> >>

\* get_products_to_scrape(args, db_manager, db_config) without --new-products-only
get_products_to_scrape(db) ==
    SelectSeq(SortedPairs, LAMBDA pr : pr[2] \in get_product_urls(db, pr[1]))

\* get_fallback_price(url): a fetch is attempted only for the fallback sites;
\* [fetched, price_info], outcome being what the fetch returns
get_fallback_price(sites, url, outcome) ==
    IF DomainOf(url) \in sites
    THEN [fetched |-> TRUE, price_info |-> outcome]
    ELSE [fetched |-> FALSE, price_info |-> None]

\* process_product_row_db(row, ...): [fetched, price_info]
process_product_row_db(url, outcome) ==
    IF DomainOf(url) = "idealo.fr"
    THEN \* get_idealo_price, then get_fallback_price when it returns None
         IF outcome # None THEN [fetched |-> TRUE, price_info |-> outcome]
         ELSE [fetched |-> TRUE,
               price_info |-> get_fallback_price(fallback_sites, url, outcome).price_info]
    ELSE get_fallback_price(fallback_sites, url, outcome)

(* ------------------------ extraction pipeline ------------------------- *)
\* str.lower() on the words the pages and slugs of the model are made of
Lower(tok) ==
    CASE tok = "CAPTCHA" -> "captcha"
      [] tok = "Cloudflare" -> "cloudflare"
      [] tok = "AMD" -> "amd"
      [] tok = "Ryzen" -> "ryzen"
      [] tok = "Athlon" -> "athlon"
      [] tok = "Intel" -> "intel"
      [] tok = "Core" -> "core"
      [] tok = "N" -> "n"
      [] tok = "A" -> "a"
      [] OTHER -> tok

\* the words of a text (a sequence of words), unchanged
Words(text) == {text[k] : k \in DOMAIN text}

\* text.lower(), as the set of its words
LowerWords(text) == {Lower(text[k]) : k \in DOMAIN text}

anti_bot_indicators ==
    {"cloudflare", "checking your browser", "please wait", "verification",
     "captcha", "robot", "bot detection", "security check", "ddos protection",
     "javascript required", "enable javascript", "turnstile"}

detect_case_sensitive(content) == Words(content) \cap anti_bot_indicators # {}

\* detect_anti_bot_protection(content): some indicator in content.lower()
detect_anti_bot_protection(content) ==
    LowerWords(content) \cap anti_bot_indicators # {}

\* re.search(r"/prix/\d+/([^.]+)\.html", url).group(1).split("-")
SlugParts(url) ==
    CASE url = UrlIdealo -> <<"amd", "ryzen", "7", "pro">>
      [] url = "https://www.idealo.fr/prix/2/intel-i7.html" -> <<"intel", "i7">>
      [] url = "https://www.idealo.fr/prix/3/logitech-g-pro.html"
            -> <<"logitech", "g", "pro">>
      [] url = "https://www.idealo.fr/prix/4/souris-gamer.html"
            -> <<"souris", "gamer">>
      [] OTHER -> <<>>

brand_patterns ==
    {"razer", "logitech", "corsair", "keychron", "steelseries", "hyperx", "asus",
     "msi", "gigabyte", "amd", "intel", "nvidia"}

common_words == {"pro", "gaming", "rgb", "wireless", "black", "white", "red", "blue"}

\* len(keyword)
KeywordLen(tok) ==
    CASE tok = "7" -> 1 [] tok = "g" -> 1 [] tok = "i7" -> 2
      [] tok = "amd" -> 3 [] tok = "pro" -> 3 [] OTHER -> 5

\* extract_product_info_from_url(url): [brand, model_keywords]
extract_product_info_from_url(url) ==
    LET parts == SlugParts(url)
        brands == {b \in brand_patterns : \E k \in DOMAIN parts : parts[k] = b}
        brand == IF brands = {} THEN "" ELSE CHOOSE b \in brands : TRUE
    IN [brand |-> brand,
        model_keywords |->
            SelectSeq(parts, LAMBDA part : part \notin common_words /\ part # brand)]

check_brand_only(url, actual_product_name) ==
    LET expected == extract_product_info_from_url(url) IN
    IF expected.brand = "" THEN FALSE
    ELSE IF actual_product_name = <<>> THEN FALSE
    ELSE expected.brand \notin LowerWords(actual_product_name)

\* check_product_mismatch(page, original_url), the page giving the product
\* name actual_product_name: TRUE when a mismatch is detected
check_product_mismatch(url, actual_product_name) ==
    LET expected == extract_product_info_from_url(url)
        kws == expected.model_keywords
    IN IF expected.brand = "" THEN FALSE
       ELSE IF actual_product_name = <<>> THEN FALSE
       ELSE IF expected.brand \notin LowerWords(actual_product_name) THEN TRUE
       ELSE IF kws # <<>>
                 /\ ~\E k \in DOMAIN kws :
                        /\ KeywordLen(kws[k]) > 2
                        /\ Lower(kws[k]) \in LowerWords(actual_product_name)
            THEN TRUE
       ELSE FALSE

\* handle_idealo_page(page, url): TRUE when the page is valid for extraction
handle_idealo_page(url, page) == ~check_product_mismatch(url, page.product_name)

\* handle_site_specific_page_setup(page, url)
handle_site_specific_page_setup(url, page) ==
    IF DomainOf(url) = "idealo.fr" THEN handle_idealo_page(url, page) ELSE TRUE

\* the pages a URL may serve: the status of the HTTP fetch, the price the
\* selectors give on the HTTP body and on the rendered DOM, the words of the
\* rendered content and the product name of the page
Page(status, http_price, browser_price, content, product_name) ==
    [status |-> status, http_price |-> http_price, browser_price |-> browser_price,
     content |-> content, product_name |-> product_name]

Pages ==
    {Page(200, 10, 10, <<"prix">>, <<"AMD", "Ryzen">>),
     Page(200, None, 10, <<"prix">>, <<"AMD", "Ryzen">>),
     Page(404, None, None, <<"introuvable">>, <<>>),
     Page(200, None, None, <<"prix">>, <<"AMD", "Ryzen">>),
     Page(200, None, None, <<"CAPTCHA">>, <<>>),
     Page(503, None, None, <<"Cloudflare">>, <<>>),
     Page(200, 10, 10, <<"prix">>, <<"Intel", "Core">>),
     Page(200, None, 10, <<"prix">>, <<"AMD", "Athlon">>)}

\* Fetch(url) of the extraction pipeline on the page the URL serves:
\* [price_info, issue], issue being the type the failure is tagged with
Fetch(url, page) ==
    IF page.status = 404
    THEN [price_info |-> None, issue |-> "404_error"]
    ELSE IF ~handle_site_specific_page_setup(url, page)
    THEN [price_info |-> None, issue |-> "name_mismatch"]
    ELSE LET http == IF page.status = 200 THEN page.http_price ELSE None
             price == IF http # None THEN http ELSE page.browser_price
         IN IF price # None THEN [price_info |-> price, issue |-> ""]
            ELSE IF detect_anti_bot_protection(page.content)
            THEN [price_info |-> None, issue |-> "anti_bot"]
            ELSE [price_info |-> None, issue |-> "scrape_error"]

\* get_product_by_url(url): the ids of the products a urls row of url belongs to
get_product_by_url(db, url) ==
    {p.id : p \in {q \in db.products :
                      \E u \in db.urls : u.url = url /\ u.product_id = q.id}}

\* the issue a failed fetch of url is recorded as, when the URL has a product
RecordFailure(db, url, issue, t) ==
    IF issue = "" \/ get_product_by_url(db, url) = {} THEN db
    ELSE log_product_issue(db, CHOOSE pid \in get_product_by_url(db, url) : TRUE,
                           url, issue, t)

ShouldSkipNever(c, url, t) == FALSE

\* scrape_products: database_type == "sqlite" and is_url_cached(row["URL"])
ShouldSkip(c, url, t) == is_url_cached(c, url, t)

(* --------------------------- actions of a run ------------------------- *)
\* main(): set up the database manager and list the products to scrape
StartRun ==
    /\ pc = "idle"
    /\ run.id < MaxRuns
    /\ run' = [id |-> run.id + 1, start |-> now, rows |-> get_products_to_scrape(Db),
               i |-> 1, j |-> 1, updated_rows |-> <<>>, uncached |-> {},
               skipped |-> {}, fetches |-> {}, hist0 |-> next_id.price_history]
    /\ pc' = "scrape"
    /\ UNCHANGED <<now, cache, callCount, imported, lastOp, successLog>>
    /\ UNCHANGED dbVars
    /\ UNCHANGED auxVars

\* scrape_products: one iteration of the loop over the rows
ScrapeRow ==
    /\ pc = "scrape"
    /\ run.i <= Len(run.rows)
    /\ LET name == run.rows[run.i][1]
           url == run.rows[run.i][2]
       IN IF ShouldSkip(cache, url, now)
          THEN run' = [run EXCEPT !.i = @ + 1, !.skipped = @ \cup {url}]
          ELSE \E outcome \in Prices \cup {None} :
                 LET r == process_product_row_db(url, outcome) IN
                 run' = [run EXCEPT
                           !.i = @ + 1,
                           !.uncached = @ \cup {url},
                           !.fetches = IF r.fetched
                                       THEN @ \cup {[url |-> url, at |-> now,
                                                     price_info |-> r.price_info]}
                                       ELSE @,
                           !.updated_rows =
                               IF r.price_info # None
                               THEN Append(@, [name |-> name, url |-> url,
                                               price |-> r.price_info])
                               ELSE @]
    /\ UNCHANGED <<now, pc, cache, callCount, imported, lastOp, successLog>>
    /\ UNCHANGED dbVars
    /\ UNCHANGED auxVars

\* scrape_products: one iteration of the loop over the rows, the fetch going
\* through the extraction pipeline on the page the URL serves
ScrapeFetchRow ==
    /\ pc = "scrape"
    /\ run.i <= Len(run.rows)
    /\ LET name == run.rows[run.i][1]
           url == run.rows[run.i][2]
       IN IF ShouldSkip(cache, url, now)
          THEN /\ run' = [run EXCEPT !.i = @ + 1, !.skipped = @ \cup {url}]
               /\ UNCHANGED dbVars
          ELSE \E page \in Pages :
                 LET f == Fetch(url, page)
                     r == process_product_row_db(url, f.price_info)
                 IN /\ run' = [run EXCEPT
                           !.i = @ + 1,
                           !.uncached = @ \cup {url},
                           !.fetches = IF r.fetched
                                       THEN @ \cup {[url |-> url, at |-> now,
                                                     price_info |-> r.price_info,
                                                     page |-> page,
                                                     issue_id |-> next_id.product_issues]}
                                       ELSE @,
                           !.updated_rows =
                               IF r.price_info # None
                               THEN Append(@, [name |-> name, url |-> url,
                                               price |-> r.price_info])
                               ELSE @]
                    /\ SetDb(IF r.fetched THEN RecordFailure(Db, url, f.issue, now)
                             ELSE Db)
    /\ UNCHANGED <<now, pc, cache, callCount, imported, lastOp, successLog>>
    /\ UNCHANGED auxVars

\* scrape_products returns; main goes on to save_scraping_results
EndScrape ==
    /\ pc = "scrape"
    /\ run.i > Len(run.rows)
    /\ pc' = "save"
    /\ UNCHANGED <<now, run, cache, callCount, imported, lastOp, successLog>>
    /\ UNCHANGED dbVars
    /\ UNCHANGED auxVars

\* save_scraping_results: one iteration of the loop over updated_rows
SaveRow ==
    /\ pc = "save"
    /\ run.j <= Len(run.updated_rows)
    /\ LET row == run.updated_rows[run.j]
           r == add_price_entry(Db, row.name, row.url, row.price, run.start)
           success == r[2]
       IN /\ SetDb(r[1])
          /\ cache' = update_cache(cache, row.url, success, NULL, now)
          /\ callCount' = [callCount EXCEPT ![row.url] = @ + 1]
          /\ lastOp' = [op |-> "update_cache", url |-> row.url, success |-> success,
                        explicit |-> NULL, at |-> now, n |-> 0]
          /\ successLog' = IF success
                           THEN successLog \cup
                                  {[run |-> run.id, url |-> row.url, last_scraped |-> now,
                                    cache_duration_hours |-> cache_duration_hours]}
                           ELSE successLog
    /\ run' = [run EXCEPT !.j = @ + 1]
    /\ UNCHANGED <<now, pc, imported>>
    /\ UNCHANGED auxVars

\* save_scraping_results returns and main ends
EndRun ==
    /\ pc = "save"
    /\ run.j > Len(run.updated_rows)
    /\ pc' = "idle"
    /\ UNCHANGED <<now, run, cache, callCount, imported, lastOp, successLog>>
    /\ UNCHANGED dbVars
    /\ UNCHANGED auxVars

\* wall-clock time advances by one hour
Tick ==
    /\ now < MaxTime
    /\ now' = now + 1
    /\ UNCHANGED <<cache, callCount, imported, lastOp>>
    /\ UNCHANGED dbVars
    /\ UNCHANGED runVars
    /\ UNCHANGED auxVars

\* a caller applies update_cache(url, success[, next_retry])
UpdateCacheOf(cacheUrls, maxAttempts) ==
    \E url \in cacheUrls, success \in BOOLEAN,
       explicit \in {NULL} \cup {now + d : d \in ExplicitRetryDelays} :
        /\ Attempts(cache, url) < maxAttempts
        /\ cache' = update_cache(cache, url, success, explicit, now)
        /\ callCount' = [callCount EXCEPT ![url] = @ + 1]
        /\ lastOp' = [op |-> "update_cache", url |-> url, success |-> success,
                      explicit |-> explicit, at |-> now, n |-> 0]
        /\ UNCHANGED <<now, imported>>
        /\ UNCHANGED dbVars
        /\ UNCHANGED runVars
        /\ UNCHANGED auxVars

UpdateCache == UpdateCacheOf(CacheUrls, MaxAttempts)

\* import_from_json(db, path) of a valid catalog document out of `catalogs`
Import(catalogs) ==
    \E catalog \in catalogs :
        /\ next_id.products + Cardinality(NewNames(Db, catalog)) <= MaxProductId + 1
        /\ LET r == sync_products(Db, catalog) IN
             /\ SetDb(r.db)
             /\ imported' = [catalog |-> catalog, new_products |-> r.new_products,
                             new_urls |-> r.new_urls]
        /\ UNCHANGED <<now, cache, callCount, lastOp>>
        /\ UNCHANGED runVars
        /\ UNCHANGED auxVars

\* deactivate_product_url(url)
DeactivateUrl ==
    \E url \in Urls :
        /\ SetDb(deactivate_product_url(Db, url)[1])
        /\ UNCHANGED <<now, cache, callCount, imported, lastOp>>
        /\ UNCHANGED runVars
        /\ UNCHANGED auxVars

\* remove_product_completely(product_id)
RemoveProduct ==
    \E pid \in 1 .. MaxProductId :
        /\ SetDb(remove_product_completely(Db, pid)[1])
        /\ imported' = IF products' = products THEN imported ELSE NoImport
        /\ UNCHANGED <<now, cache, callCount, lastOp>>
        /\ UNCHANGED runVars
        /\ UNCHANGED auxVars

\* the (Product_Name, URL) rows a run of main.py may hold
ListedPairs == {<<"A", UrlAmazon>>, <<"A", UrlIdealo>>, <<"B", UrlPcc>>}

\* add_price_entry(product_name, url, price), as save_scraping_results calls it
AddPriceEntryUpTo(maxHistory) ==
    \E pair \in ListedPairs, price \in Prices :
      LET name == pair[1]  url == pair[2] IN
        /\ next_id.price_history <= maxHistory
        /\ LET r == add_price_entry(Db, name, url, price, now) IN
             /\ SetDb(r[1])
        /\ UNCHANGED <<now, cache, callCount, imported, lastOp>>
        /\ UNCHANGED runVars
        /\ UNCHANGED auxVars

AddPriceEntry == AddPriceEntryUpTo(MaxHistory)

\* log_product_issue(product_id, url, issue_type)
LogIssueOf(pids, us, types) ==
    \E pid \in pids, url \in us, type \in types :
        /\ next_id.product_issues <= MaxIssues
        /\ SetDb(log_product_issue(Db, pid, url, type, now))
        /\ UNCHANGED <<now, cache, callCount, imported, lastOp>>
        /\ UNCHANGED runVars
        /\ UNCHANGED auxVars

LogIssue == LogIssueOf(1 .. MaxProductId, Urls, IssueTypes)

\* log_product_issue(product_id, url, issue_type) of the legacy manager
LogIssueLegacy ==
    \E pid \in 1 .. MaxProductId, url \in Urls, type \in IssueTypes :
        /\ lastOp.n < MaxLegacyCalls
        /\ SetDb(legacy_log_product_issue(Db, pid, url, type, now))
        /\ lastOp' = [op |-> "log_product_issue", url |-> url, success |-> TRUE,
                      explicit |-> NULL, at |-> now, n |-> lastOp.n + 1,
                      product_id |-> pid, issue_type |-> type]
        /\ UNCHANGED <<now, cache, callCount, imported>>
        /\ UNCHANGED runVars
        /\ UNCHANGED auxVars

\* resolve_product_issue(issue_id)
ResolveIssue ==
    \E issue_id \in 1 .. MaxIssues :
        /\ SetDb(resolve_product_issue(Db, issue_id))
        /\ UNCHANGED <<now, cache, callCount, imported, lastOp>>
        /\ UNCHANGED runVars
        /\ UNCHANGED auxVars

\* auto_handle_critical_issues(auto_remove)
AutoHandleWith(auto_remove) ==
    \E order \in DetectedAtDesc(get_product_issues(Db, FALSE)) :
        /\ SetDb(auto_handle_critical_issues(Db, order, auto_remove))
        /\ imported' = IF products' = products THEN imported ELSE NoImport
        /\ UNCHANGED <<now, cache, callCount, lastOp>>
        /\ UNCHANGED runVars
        /\ UNCHANGED auxVars

AutoHandle == \E auto_remove \in BOOLEAN : AutoHandleWith(auto_remove)

\* nothing logged on the cloud manager, no helper applied
InitAux ==
    /\ malfunctioning_links = {}
    /\ linkHist = {}
    /\ arg = <<>>
    /\ result = NULL
    /\ workers = <<>>
    /\ ci = NoMonitor

InitCache ==
    /\ InitAux
    /\ now = 0
    /\ cache = {}
    /\ callCount = [u \in Urls |-> 0]
    /\ lastOp = NoOp
    /\ imported = NoImport
    /\ pc = "idle"
    /\ run = NoRun
    /\ successLog = {}
    /\ products = EmptyDb.products
    /\ urls = EmptyDb.urls
    /\ price_history = EmptyDb.price_history
    /\ product_issues = EmptyDb.product_issues
    /\ next_id = EmptyDb.next_id

Init == InitCache

NextCache == Tick \/ UpdateCache

SpecCache == InitCache /\ [][NextCache]_vars

\* the catalog the issue tracker works on: product A on two sites, product B on one
SeedCatalogs == {<<[name |-> "A", category |-> "CPU", urls |-> <<UrlAmazon, UrlIdealo>>],
                   [name |-> "B", category |-> "GPU", urls |-> <<UrlPcc>>]>>}

NextIssues == Import(SeedCatalogs) \/ AddPriceEntry \/ LogIssue \/ AutoHandle

SpecIssues == Init /\ [][NextIssues]_vars

\* the database of a run: the seed catalog has been imported
InitRun ==
    LET r == sync_products(EmptyDb, CHOOSE c \in SeedCatalogs : TRUE) IN
    /\ InitAux
    /\ now = 0
    /\ cache = {}
    /\ callCount = [u \in Urls |-> 0]
    /\ lastOp = NoOp
    /\ imported = NoImport
    /\ pc = "idle"
    /\ run = NoRun
    /\ successLog = {}
    /\ products = r.db.products
    /\ urls = r.db.urls
    /\ price_history = r.db.price_history
    /\ product_issues = r.db.product_issues
    /\ next_id = r.db.next_id

NextRun == Tick \/ StartRun \/ ScrapeRow \/ EndScrape \/ SaveRow \/ EndRun \/ RemoveProduct

SpecRun == InitRun /\ [][NextRun]_vars

NextSync == Import(Catalogs) \/ DeactivateUrl \/ RemoveProduct

SpecSync == Init /\ [][NextSync]_vars

\* runs of main.py whose fetches go through the extraction pipeline
NextFetch == StartRun \/ ScrapeFetchRow \/ EndScrape \/ SaveRow \/ EndRun

SpecFetch == InitRun /\ [][NextFetch]_vars

\* issue logging through either manager on the seeded database
NextLog == LogIssue \/ LogIssueLegacy \/ RemoveProduct

SpecLog == InitRun /\ [][NextLog]_vars

\* the price store under every operation of the persistence layer
NextStore ==
    \/ Import(SeedCatalogs)
    \/ AddPriceEntryUpTo(MaxStoreHistory)
    \/ UpdateCacheOf({UrlAmazon}, MaxStoreAttempts)
    \/ LogIssueOf({1}, {UrlAmazon}, {"404_error", "name_mismatch"})
    \/ ResolveIssue
    \/ DeactivateUrl
    \/ RemoveProduct

SpecStore == Init /\ [][NextStore]_vars

(* ------------------------- cache & backoff claims --------------------- *)
\* the delay table of the backoff schedule: 1h, 2h, 4h, 8h, 16h, 24h, 24h, ...
ExpectedDelay(n) ==
    CASE n = 1 -> 1 [] n = 2 -> 2 [] n = 3 -> 4 [] n = 4 -> 8
      [] n = 5 -> 16 [] OTHER -> 24

\* C1: is_url_cached(url) is True exactly when the URL has a cache entry with
\* status=success and now < last_scraped + cache_duration_hours, or with
\* status=failed and now < next_retry; it is False without an entry and at
\* every time at or after the expiry; right after a successful update_cache
\* it is True and it stays True until last_scraped + cache_duration_hours.
C1_CacheGating ==
    \A url \in CacheUrls :
        /\ is_url_cached(cache, url, now) <=>
              \E r \in cache :
                  /\ r.url = url
                  /\ \/ r.status = "success"
                        /\ now < r.last_scraped + r.cache_duration_hours
                     \/ r.status = "failed" /\ r.next_retry # NULL
                        /\ now < r.next_retry
        /\ (CacheRows(cache, url) = {}) => ~is_url_cached(cache, url, now)
        /\ \A r \in CacheRows(cache, url) :
              r.status = "success" =>
                 \A t \in r.last_scraped .. (r.last_scraped + r.cache_duration_hours + 1) :
                    is_url_cached(cache, url, t)
                       <=> t < r.last_scraped + r.cache_duration_hours
        /\ (lastOp.op = "update_cache" /\ lastOp.url = url /\ lastOp.success
              /\ lastOp.at = now) => is_url_cached(cache, url, now)

\* a success entry has reached its expiry and a failed entry is still gated
C1_Witness ==
    /\ \E r \in cache : /\ r.status = "success"
                        /\ now = r.last_scraped + r.cache_duration_hours
                        /\ ~is_url_cached(cache, r.url, now)
    /\ \E r \in cache : r.status = "failed" /\ is_url_cached(cache, r.url, now)

\* C2: after update_cache(url, success=False) without explicit next_retry,
\* with the attempts counter at n after the call, next_retry equals
\* now + min(2^(n-1), 24) hours (1, 2, 4, 8, 16, 24, 24, ...), and the delay
\* never decreases as attempts grows.
C2_Backoff ==
    (lastOp.op = "update_cache" /\ ~lastOp.success /\ lastOp.explicit = NULL) =>
        \A r \in CacheRows(cache, lastOp.url) :
            /\ r.next_retry = lastOp.at + ExpectedDelay(r.attempts)
            /\ r.next_retry - lastOp.at <= 24
            /\ r.attempts > 1 =>
                  backoff_hours(r.attempts - 1) <= r.next_retry - lastOp.at

\* a seventh and later failure has been recorded with the capped delay
C2_Witness ==
    /\ lastOp.op = "update_cache" /\ ~lastOp.success /\ lastOp.explicit = NULL
    /\ \E r \in CacheRows(cache, lastOp.url) :
          r.attempts >= 7 /\ r.next_retry = lastOp.at + 24

\* C3: the cache holds exactly one row per URL ever recorded, and attempts
\* equals the number of update_cache calls made for the URL (each call adds
\* exactly one, nothing resets it).
C3_OneRowPerUrl ==
    \A url \in CacheUrls :
        /\ Cardinality(CacheRows(cache, url)) = (IF callCount[url] > 0 THEN 1 ELSE 0)
        /\ \A r \in CacheRows(cache, url) : r.attempts = callCount[url]

\* both URLs are recorded, one of them after a success following failures
C3_Witness ==
    /\ \A url \in CacheUrls : callCount[url] >= 2
    /\ \E r \in cache : r.status = "success" /\ r.attempts >= 3

(* --------------------- issue tracker & remediation claims ------------- *)
\* the unresolved issues of a type that get_product_issues(resolved=False) returns
Unresolved(type) == {i \in get_product_issues(Db, FALSE) : i.issue_type = type}

\* product pid is removed by the call on account of a 404_error issue
Removed404(pid, auto_remove) ==
    auto_remove /\ \E i \in Unresolved("404_error") : i.product_id = pid

\* C7: given a product with an unresolved 404_error issue,
\* auto_handle_critical_issues(auto_remove=True) deletes the product row, every
\* urls row and every price_history row of the product, and marks every
\* product_issues row of the product resolved; get_products no longer returns it.
C7_Remove404 ==
    [][AutoHandleWith(TRUE) =>
         \A i \in Unresolved("404_error") :
            /\ ~\E p \in products' : p.id = i.product_id
            /\ \A p \in products : p.id = i.product_id =>
                                      ~\E q \in products' : q.name = p.name
            /\ ~\E u \in urls' : u.product_id = i.product_id
            /\ ~\E h \in price_history' : h.product_id = i.product_id
            /\ \A j \in product_issues' : j.product_id = i.product_id => j.resolved]_vars

\* a product that had a price row and two issues was removed: its issues are
\* resolved, its price row is gone, the other product is still there
C7_Witness ==
    /\ \E i, j \in product_issues :
          /\ i.issue_type = "404_error" /\ i.resolved /\ j.resolved /\ i # j
          /\ j.product_id = i.product_id
          /\ ~\E p \in products : p.id = i.product_id
    /\ next_id.price_history > 1 /\ price_history = {}
    /\ products # {}

NonCritical == {"scrape_error", "anti_bot"}

\* C9 as stated: after auto_handle_critical_issues every scrape_error and
\* anti_bot issue is still unresolved, and nothing is changed on account of
\* such issues.
C9_AsStated ==
    [][\A auto_remove \in BOOLEAN : AutoHandleWith(auto_remove) =>
         /\ \A i \in product_issues :
              (i.issue_type \in NonCritical /\ ~i.resolved) => i \in product_issues'
         /\ (Unresolved("404_error") \cup Unresolved("name_mismatch") = {})
               => UNCHANGED dbVars]_vars

\* C9 (amended): auto_handle_critical_issues takes no action for scrape_error
\* and anti_bot issues: every such issue is still unresolved after the call
\* unless its product was removed in the call on account of a 404_error issue
\* (which resolves every issue of that product), and when no 404_error or
\* name_mismatch issue is unresolved no product, URL, price_history or issue
\* row changes at all.
C9_NoActionForNonCritical ==
    [][\A auto_remove \in BOOLEAN : AutoHandleWith(auto_remove) =>
         /\ \A i \in product_issues :
              (i.issue_type \in NonCritical /\ ~i.resolved
                  /\ ~Removed404(i.product_id, auto_remove)) => i \in product_issues'
         /\ (Unresolved("404_error") \cup Unresolved("name_mismatch") = {})
               => UNCHANGED dbVars]_vars

\* a name_mismatch issue was handled while a scrape_error issue on the same
\* URL of the same product stays unresolved
C9_Witness ==
    \E i, j \in product_issues, u \in urls :
        /\ i.issue_type \in NonCritical /\ ~i.resolved
        /\ j.issue_type = "name_mismatch" /\ j.resolved
        /\ j.product_id = i.product_id /\ j.url = i.url
        /\ u.url = i.url /\ u.product_id = i.product_id /\ ~u.active

\* C13: each log_product_issue call inserts exactly one new unresolved
\* product_issues row that is durable after the call returns: the table holds
\* one row more, the new row is unresolved, and for an existing product
\* get_product_issues(resolved=False) returns one row more; there is no
\* deduplication, so n calls yield n rows.
C13_LogInsertsOne ==
    [][(LogIssue \/ LogIssueLegacy) =>
          /\ Cardinality(product_issues') = Cardinality(product_issues) + 1
          /\ \A i \in product_issues : i \in product_issues'
          /\ \A i \in product_issues' \ product_issues :
                /\ ~i.resolved
                /\ (\E p \in products : p.id = i.product_id)
                      => i \in get_product_issues(Db, FALSE)']_vars

(* --------------------------- catalog sync claims ---------------------- *)
\* C10: importing the same valid catalog document again inserts no products
\* row and no urls row and leaves the active flag of every existing URL
\* unchanged, also of URLs deactivated before the second import.
C10_SyncIdempotent ==
    imported # NoImport =>
        LET r == sync_products(Db, imported.catalog) IN
            /\ r.db.products = products
            /\ r.db.urls = urls
            /\ r.db.next_id = next_id

\* the catalog was imported, one of its URLs is deactivated, and one of its
\* URLs belongs to another product of the catalog
C10_Witness ==
    /\ imported # NoImport
    /\ Len(imported.catalog) = 2
    /\ \E u \in urls : ~u.active
          /\ \E k \in DOMAIN imported.catalog, n \in 1 .. 2 :
                n <= Len(imported.catalog[k].urls) /\ imported.catalog[k].urls[n] = u.url
    /\ \E u \in urls, k \in DOMAIN imported.catalog, p \in products :
          /\ p.name = imported.catalog[k].name /\ u.product_id # p.id
          /\ \E n \in 1 .. Len(imported.catalog[k].urls) :
                imported.catalog[k].urls[n] = u.url

\* some products row or some urls row of the state is gone after the step
RowDeleted ==
    \/ \E p \in products : ~\E q \in products' : q.id = p.id
    \/ \E u \in urls : ~\E v \in urls' : v.url = u.url

\* the step is an import_from_json: of the catalog that imported' records
ImportStep ==
    /\ imported' # NoImport
    /\ LET r == sync_products(Db, imported'.catalog) IN
          /\ products' = r.db.products /\ urls' = r.db.urls
          /\ next_id' = r.db.next_id
          /\ imported'.new_products = r.new_products
          /\ imported'.new_urls = r.new_urls

\* C11: catalog sync is strictly additive/updating: after import_from_json of
\* a valid catalog every products row that existed before still exists (same
\* id and name, only its category may be updated) and every urls row that
\* existed before still exists with the same product ownership and the same
\* active flag; price history, issues and cache are untouched.  A step that
\* deletes a products or urls row is a remove_product_completely.
C11_SyncAdditive ==
    [][/\ ImportStep =>
            /\ \A p \in products :
                  \E q \in products' : q.id = p.id /\ q.name = p.name
            /\ \A u \in urls : u \in urls'
            /\ \A q \in products' :
                  (\E p \in products : p.id = q.id) \/ q.id >= next_id.products
            /\ \A v \in urls' \ urls :
                  v.active /\ ~\E u \in urls : u.url = v.url
            /\ price_history' = price_history
            /\ product_issues' = product_issues
            /\ cache' = cache
       /\ RowDeleted => RemoveProduct]_vars

\* an import into a database that already held the catalog's products, one of
\* them with a deactivated URL, has added a URL and updated nothing else
C11_Witness ==
    /\ imported # NoImport /\ imported.new_products = 0
    /\ Cardinality(products) = 2 /\ Cardinality(urls) = 3
    /\ \E u \in urls : ~u.active

(* --------------------------- price store claims ----------------------- *)
\* the step is remove_product_completely(pid)
RemoveStep(pid) ==
    LET r == remove_product_completely(Db, pid) IN
        /\ r[2]
        /\ products' = r[1].products /\ urls' = r[1].urls
        /\ price_history' = r[1].price_history
        /\ product_issues' = r[1].product_issues

\* C12: price history is append-only: under add_price_entry, update_cache,
\* catalog sync, issue logging and resolving and URL deactivation every
\* price_history row once inserted is still present with unchanged fields,
\* and no second row takes its id; a row disappears only in a
\* remove_product_completely of its product.
C12_AppendOnly ==
    [][\A h \in price_history :
          /\ h \in price_history' \/ RemoveStep(h.product_id)
          /\ \A g \in price_history' : g.id = h.id => g = h]_vars

\* two observations of the same URL are stored, the URL has been deactivated,
\* its cache entry written, an issue of the product logged and resolved
C12_Witness ==
    /\ \E g, h \in price_history : g.id # h.id /\ g.url = h.url
          /\ \E u \in urls : u.url = h.url /\ ~u.active
          /\ \E i \in product_issues : i.product_id = h.product_id /\ i.resolved
          /\ CacheRows(cache, h.url) # {}
    /\ Cardinality(products) = 1

(* ------------------------------ run claims ---------------------------- *)
\* C4: the outcome of every fetch attempt is recorded in the cache: when the
\* pipeline yields no price for a URL, update_cache(url, success=False) is
\* applied, so that after the run the URL has a failed entry with attempts
\* incremented and next_retry set, which gates the next run.
C4_FailureRecorded ==
    (pc = "idle" /\ run.id > 0) =>
        \A f \in run.fetches :
            f.price_info = None =>
                \E r \in CacheRows(cache, f.url) :
                    /\ r.status = "failed"
                    /\ r.last_scraped >= f.at
                    /\ r.next_retry # NULL
                    /\ is_url_cached(cache, f.url, r.last_scraped)

\* C5: for every active URL of the catalog that the cache does not gate, the
\* pipeline performs a fetch attempt, whatever the URL's domain.
C5_EveryUncachedUrlFetched ==
    \A url \in run.uncached : \E f \in run.fetches : f.url = url

\* C6 as stated: after a recorded successful fetch of a URL, a later run
\* that starts before last_scraped + cache_duration_hours performs no fetch
\* for that URL.
C6_AsStated ==
    \A s \in successLog :
        (s.run < run.id /\ run.start < s.last_scraped + s.cache_duration_hours) =>
            ~\E f \in run.fetches : f.url = s.url

\* C6 (amended): after a recorded successful fetch of a URL, a later run
\* whose cache check for that URL happens before last_scraped +
\* cache_duration_hours performs no fetch for it (the check skips it) and adds
\* no price_history row for it; the check is made when the run reaches the
\* URL, not when the run starts.
C6_CacheSkip ==
    \A s \in successLog :
        s.run < run.id =>
            /\ \A f \in run.fetches :
                  f.url = s.url => f.at >= s.last_scraped + s.cache_duration_hours
            /\ s.url \in run.skipped =>
                  /\ ~\E f \in run.fetches : f.url = s.url
                  /\ ~\E h \in price_history : h.id >= run.hist0 /\ h.url = s.url

\* the second run is over: it skipped a URL the first run had fetched and
\* recorded, and stored nothing for it
C6_Witness ==
    /\ pc = "idle" /\ run.id = 2
    /\ \E s \in successLog : s.run = 1 /\ s.url \in run.skipped
                               /\ now < s.last_scraped + s.cache_duration_hours
    /\ \E h \in price_history : h.id < run.hist0

(* ---------------------- C14: failure classification ------------------- *)
\* the rendered content holds a challenge keyword, whatever its case
ChallengeCopy(content) ==
    \E k \in DOMAIN content : Lower(content[k]) \in anti_bot_indicators

\* neither stage finds a price on the page
NoPriceOn(page) ==
    /\ page.status # 200 \/ page.http_price = None
    /\ page.browser_price = None

\* the fetch f left an unresolved issue row of this type for its URL
Recorded(f, type) ==
    \E i \in product_issues :
        /\ i.id = f.issue_id
        /\ i.url = f.url
        /\ i.issue_type = type
        /\ i.product_id \in get_product_by_url(Db, f.url)
        /\ i.detected_at = f.at
        /\ ~i.resolved

OtherProduct(url, page) ==
    /\ DomainOf(url) = "idealo.fr"
    /\ page.product_name # <<>>
    /\ \/ "amd" \notin LowerWords(page.product_name)
       \/ "ryzen" \notin LowerWords(page.product_name)

MaxOccurrences == 2
LinkUrls == {UrlAmazon, UrlPcc}
ErrorTypes == {"price_parse_failed", "timeout"}

\* INSERT INTO malfunctioning_links (product_id, url, site_name, error_type,
\* error_message): the columns left out take the defaults of the table
NewLinkRow(links, product_id, url, error_type) ==
    [id |-> Cardinality(links) + 1, product_id |-> product_id, url |-> url,
     error_type |-> error_type, occurrences |-> 1, resolved |-> FALSE]

\* log_malfunctioning_link(product_id, url, error_type): the tables after it
log_malfunctioning_link(links, us, product_id, url, error_type) ==
    LET existing == {l \in links : l.url = url} IN
    [malfunctioning_links |->
        IF existing # {}
        THEN LET e == CHOOSE l \in existing : \A m \in existing : l.id <= m.id
             IN {IF l.id = e.id
                 THEN [l EXCEPT !.occurrences = @ + 1, !.error_type = error_type]
                 ELSE l : l \in links}
        ELSE links \cup {NewLinkRow(links, product_id, url, error_type)},
     urls |-> {IF u.url = url THEN [u EXCEPT !.active = FALSE] ELSE u : u \in us}]

\* get_malfunctioning_links(include_resolved)
get_malfunctioning_links(links, prods, include_resolved) ==
    {l \in links : /\ \E p \in prods : p.id = l.product_id
                   /\ include_resolved \/ ~l.resolved}

\* resolve_malfunctioning_link(url)
resolve_malfunctioning_link(links, url) ==
    {IF l.url = url THEN [l EXCEPT !.resolved = TRUE] ELSE l : l \in links}

reactivate_url_if_logged(links, us, url) ==
    IF \E l \in links : l.url = url
    THEN [urls |-> {IF u.url = url THEN [u EXCEPT !.active = TRUE] ELSE u : u \in us},
          returned |-> TRUE]
    ELSE [urls |-> us, returned |-> FALSE]

\* reactivate_url_if_resolved(url): the urls table after it and what it returns
reactivate_url_if_resolved(links, us, url) ==
    LET rows == {l \in links : l.url = url} IN
    IF rows # {} /\ (CHOOSE l \in rows : \A m \in rows : l.id <= m.id).resolved
    THEN [urls |-> {IF u.url = url THEN [u EXCEPT !.active = TRUE] ELSE u : u \in us},
          returned |-> TRUE]
    ELSE [urls |-> us, returned |-> FALSE]

LinkFrame ==
    /\ UNCHANGED <<now, cache, callCount, imported, lastOp, workers, ci>>
    /\ UNCHANGED <<products, price_history, product_issues, next_id>>
    /\ UNCHANGED runVars

LogMalfunctioningLink ==
    \E product_id \in {p.id : p \in products}, url \in LinkUrls,
       error_type \in ErrorTypes :
        LET r == log_malfunctioning_link(malfunctioning_links, urls, product_id,
                                         url, error_type)
        IN /\ \A l \in malfunctioning_links :
                 l.url = url => l.occurrences < MaxOccurrences
           /\ malfunctioning_links' = r.malfunctioning_links
           /\ urls' = r.urls
           /\ arg' = <<"log_malfunctioning_link", product_id, url, error_type>>
           /\ result' = NULL
           /\ UNCHANGED linkHist
           /\ LinkFrame

ResolveMalfunctioningLink ==
    \E url \in LinkUrls :
        /\ malfunctioning_links' =
               resolve_malfunctioning_link(malfunctioning_links, url)
        /\ linkHist' = linkHist \cup {url}
        /\ arg' = <<"resolve_malfunctioning_link", url>>
        /\ result' = NULL
        /\ UNCHANGED urls
        /\ LinkFrame

ReactivateUrl ==
    \E url \in LinkUrls :
        LET r == reactivate_url_if_resolved(malfunctioning_links, urls, url)
        IN /\ urls' = r.urls
           /\ arg' = <<"reactivate_url_if_resolved", url>>
           /\ result' = r.returned
           /\ UNCHANGED <<malfunctioning_links, linkHist>>
           /\ LinkFrame

NextLinks == LogMalfunctioningLink \/ ResolveMalfunctioningLink \/ ReactivateUrl

SpecLinks == InitRun /\ [][NextLinks]_vars

(* -------------------------- C16: reactivation ------------------------- *)
\* the URL's rows of the urls table are all active / all inactive
AllActive(us, url) == \A u \in us : u.url = url => u.active
AllInactive(us, url) == \A u \in us : u.url = url => ~u.active

C17_LoggedLinkListed ==
    [][\A product_id \in 1 .. MaxProductId, url \in LinkUrls,
          error_type \in ErrorTypes :
          arg' = <<"log_malfunctioning_link", product_id, url, error_type>> =>
             /\ AllInactive(urls', url)
             /\ \E l \in get_malfunctioning_links(malfunctioning_links',
                                                  products', FALSE) :
                   l.url = url /\ l.error_type = error_type]_vars

(* ----------------------------- clean_price ---------------------------- *)
MaxRawLen == 3
MaxDigits == 7

\* a text is the sequence of its characters
Chars(text) == {text[k] : k \in DOMAIN text}
DigitChars == {"0", "1", "2", "3", "4", "5", "6", "7", "8", "9"}
DigitVal(c) ==
    CASE c = "0" -> 0 [] c = "1" -> 1 [] c = "2" -> 2 [] c = "3" -> 3
      [] c = "4" -> 4 [] c = "5" -> 5 [] c = "6" -> 6 [] c = "7" -> 7
      [] c = "8" -> 8 [] c = "9" -> 9

\* the texts clean_price is applied to: every short text over the characters
\* of the examples, and digit runs written the ways a price is written
RawAlphabet == {"5", "9", "€", " ", ",", ".", "N", "A", "/"}
ShortTexts == UNION {[1 .. n -> RawAlphabet] : n \in 0 .. MaxRawLen}
DigitRuns == UNION {[1 .. n -> {"1", "9"}] : n \in 1 .. MaxDigits}
CutAt(d) == IF Len(d) > 2 THEN Len(d) - 2 ELSE 1
Written(d) ==
    {d, d \o <<"€">>, d \o <<" ", "€">>, <<"€">> \o d,
     SubSeq(d, 1, CutAt(d)) \o <<"€">> \o SubSeq(d, CutAt(d) + 1, Len(d)),
     SubSeq(d, 1, CutAt(d)) \o <<",">> \o SubSeq(d, CutAt(d) + 1, Len(d)),
     SubSeq(d, 1, CutAt(d)) \o <<".">> \o SubSeq(d, CutAt(d) + 1, Len(d)),
     SubSeq(d, 1, CutAt(d)) \o <<",">> \o SubSeq(d, CutAt(d) + 1, Len(d))
         \o <<" ", "€">>,
     <<d[1], " ">> \o SubSeq(d, 2, Len(d)) \o <<"€">>}
RawPrices ==
    ShortTexts \cup UNION {Written(d) : d \in DigitRuns}
        \cup {<<"5", "7", "9", "€", "9", "5">>,
              <<"1", " ", "2", "3", "4", ",", "5", "6", " ", "€">>,
              <<"N", "/", "A">>}

\* str.replace(old, "") and str.replace(old, new) on one character
Without(text, old) == SelectSeq(text, LAMBDA c : c # old)
Replaced(text, old, new) ==
    [k \in DOMAIN text |-> IF text[k] = old THEN new ELSE text[k]]

\* str.strip()
RECURSIVE strip(_)
strip(text) ==
    IF text = <<>> THEN text
    ELSE IF Head(text) = " " THEN strip(Tail(text))
    ELSE IF text[Len(text)] = " " THEN strip(SubSeq(text, 1, Len(text) - 1))
    ELSE text

\* int() of a run of digits
RECURSIVE DigitsValue(_)
DigitsValue(d) ==
    IF d = <<>> THEN 0
    ELSE 10 * DigitsValue(SubSeq(d, 1, Len(d) - 1)) + DigitVal(d[Len(d)])

\* the value float() returns is <<n, s>> for the number n / 10^s and <<"nan">>
\* for the float nan; None, returned by clean_price when float() raises
\* ValueError, is the empty tuple
NoPrice == <<>>
NaN == <<"nan">>

\* float(text) on texts of digits, dots and letters
float(text) ==
    LET t == strip(text)
        dots == {k \in DOMAIN t : t[k] = "."}
    IN IF /\ Chars(t) \subseteq DigitChars \cup {"."}
          /\ Cardinality(dots) <= 1
          /\ Chars(t) \cap DigitChars # {}
       THEN <<DigitsValue(Without(t, ".")),
              IF dots = {} THEN 0 ELSE Len(t) - (CHOOSE k \in dots : TRUE)>>
       ELSE IF [k \in DOMAIN t |-> Lower(t[k])] = <<"n", "a", "n">> THEN NaN
       ELSE NoPrice

\* clean_price(raw)
clean_price(raw) ==
    LET price == strip(Without(Without(raw, "€"), " "))
        fixed == IF /\ Len(price) >= 3 /\ Len(price) <= 6
                    /\ Chars(price) \subseteq DigitChars
                    /\ "€" \in Chars(raw)
                    /\ "." \notin Chars(raw) /\ "," \notin Chars(raw)
                 THEN SubSeq(price, 1, Len(price) - 2) \o <<".">>
                          \o SubSeq(price, Len(price) - 1, Len(price))
                 ELSE price
    IN float(Replaced(fixed, ",", "."))

\* every variable but arg and result, for the specifications of pure functions
InitIdle ==
    /\ workers = <<>>
    /\ ci = NoMonitor
    /\ malfunctioning_links = {}
    /\ linkHist = {}
    /\ now = 0
    /\ cache = {}
    /\ callCount = [u \in Urls |-> 0]
    /\ lastOp = NoOp
    /\ imported = NoImport
    /\ pc = "idle"
    /\ run = NoRun
    /\ successLog = {}
    /\ products = EmptyDb.products
    /\ urls = EmptyDb.urls
    /\ price_history = EmptyDb.price_history
    /\ product_issues = EmptyDb.product_issues
    /\ next_id = EmptyDb.next_id

Pending == <<"pending">>

InitPrice == InitIdle /\ arg \in RawPrices /\ result = Pending

CleanPrice ==
    /\ result = Pending
    /\ result' = clean_price(arg)
    /\ UNCHANGED <<arg, malfunctioning_links, linkHist, now, cache, callCount,
                   imported, lastOp, workers, ci>>
    /\ UNCHANGED dbVars
    /\ UNCHANGED runVars

NextPrice == CleanPrice

SpecPrice == InitPrice /\ [][NextPrice]_vars

(* -------------------------- C18: clean_price -------------------------- *)
\* the text left when the currency symbol and the spaces are taken away
Rest(raw) == SelectSeq(raw, LAMBDA c : c \notin {"€", " "})
Separators(raw) == {k \in DOMAIN raw : raw[k] \in {",", "."}}

\* clean_price on the texts that are numbers: the two numeric examples, a
\* run of 3 to 6 digits with the symbol and no separator read as cents, digits
\* around one comma or dot read as a decimal number, other digit runs read as
\* an integer
CleanPriceOnNumbers ==
    result # Pending =>
        LET rest == Rest(arg)
            seps == Separators(rest)
            digits == SelectSeq(rest, LAMBDA c : c \in DigitChars)
        IN /\ arg = <<"5", "7", "9", "€", "9", "5">> => result = <<57995, 2>>
           /\ arg = <<"1", " ", "2", "3", "4", ",", "5", "6", " ", "€">>
                 => result = <<123456, 2>>
           /\ (/\ "€" \in Chars(arg) /\ seps = {}
               /\ rest = digits /\ Len(rest) \in 3 .. 6)
                 => result = <<DigitsValue(rest), 2>>
           /\ (/\ Cardinality(seps) = 1
               /\ Len(digits) = Len(rest) - 1
               /\ rest[1] \in DigitChars /\ rest[Len(rest)] \in DigitChars)
                 => result = <<DigitsValue(digits),
                               Len(rest) - (CHOOSE k \in seps : TRUE)>>
           /\ (/\ rest = digits /\ rest # <<>>
               /\ ~("€" \in Chars(arg) /\ Len(rest) \in 3 .. 6))
                 => result = <<DigitsValue(rest), 0>>

\* a text holding a character that is neither a digit, a separator, the
\* currency symbol nor a space gives None
NonNumericGivesNone ==
    (result # Pending /\ ~(Chars(arg) \subseteq DigitChars \cup {",", ".", "€", " "}))
        => result = NoPrice

\* C18: clean_price strips the currency symbol and the spaces and reads a
\* comma or a dot as the decimal separator; a run of 3 to 6 digits with the
\* symbol and no separator gets its decimal point two digits from the end;
\* "579€95" gives 579.95, "1 234,56 €" gives 1234.56, and non-numeric text
\* such as "N/A" gives None
C18_CleanPrice == CleanPriceOnNumbers /\ NonNumericGivesNone

(* ------------------------ C19: counts of a sync ----------------------- *)
\* C19: sync_products returns (new_products, new_urls) equal to the number
\* of products rows and of urls rows the call inserted, whatever the database
\* held before (deactivated URLs, URLs owned by another product) and
\* whatever valid catalog is given (the same URL listed twice)
C19_CountsAreInserted ==
    [][ImportStep =>
          /\ imported'.new_products = Cardinality(products') - Cardinality(products)
          /\ imported'.new_urls = Cardinality(urls') - Cardinality(urls)]_vars

(* ------------------------ compute_summary_total ----------------------- *)
MaxListLen == 2

EXCLUDED_NOTHING == {}

EXCLUDED_CATEGORIES == {"Upgrade Kit"}

\* the order category_products is iterated in
SummaryCategories == <<"CPU", "GPU", "Upgrade Kit">>

\* a price is a float, given as <<n, s>> for n / 10^s, or a text
FloatPrice(n, s) == [is_number |-> TRUE, value |-> <<n, s>>]
TextPrice(text) == [is_number |-> FALSE, value |-> text]

\* the products a category may list: "A" at 200.004, "B" at "150,50 €",
\* "C" at "9.998"; the kit "K" at "999.99"
PartPool ==
    {[name |-> "A", price |-> FloatPrice(200004, 3)],
     [name |-> "B", price |-> TextPrice(<<"1", "5", "0", ",", "5", "0", " ", "€">>)],
     [name |-> "C", price |-> TextPrice(<<"9", ".", "9", "9", "8">>)]}
KitPool == {[name |-> "K", price |-> TextPrice(<<"9", "9", "9", ".", "9", "9">>)]}

\* the lists without repetition of at most MaxListLen products of a pool
ListsOf(pool) ==
    {l \in UNION {[1 .. n -> pool] : n \in 0 .. MaxListLen} :
        \A j, k \in DOMAIN l : j # k => l[j] # l[k]}

CategoryProducts ==
    {[cat \in {"CPU", "GPU", "Upgrade Kit"} |->
         CASE cat = "CPU" -> cpu [] cat = "GPU" -> gpu [] OTHER -> kit] :
        cpu \in ListsOf(PartPool), gpu \in ListsOf(PartPool), kit \in ListsOf(KitPool)}

\* selections: None, or a dict given as its set of <<category, name>> items
SelectionDicts ==
    {{<<c, f[c]>> : c \in DOMAIN f} :
        f \in UNION {[cs -> {"B", "Z", "K"}] : cs \in SUBSET {"CPU", "GPU", "Upgrade Kit"}}}
SelectionArgs ==
    {[is_none |-> TRUE, items |-> {}]}
        \cup {[is_none |-> FALSE, items |-> d] : d \in SelectionDicts}

\* dict.get(key): the value, None (equal to no name) when the key is absent
DictGet(items, key) ==
    IF \E it \in items : it[1] = key
    THEN (CHOOSE it \in items : it[1] = key)[2]
    ELSE "None"

\* 10^k
RECURSIVE Pow10(_)
Pow10(k) == IF k = 0 THEN 1 ELSE 10 * Pow10(k - 1)

\* a float <<n, s>> in thousandths
Mills(x) == x[1] * Pow10(3 - x[2])

\* round(total, 2) of a total in thousandths, in hundredths
round2(mills) ==
    LET q == mills \div 10
        r == mills % 10
    IN IF r > 5 \/ (r = 5 /\ q % 2 = 1) THEN q + 1 ELSE q

\* the price of one iteration of the loop: float(raw_price), or NoPrice when
\* the text does not parse (continue)
PriceOfRaw(raw_price) ==
    IF raw_price.is_number THEN raw_price.value
    ELSE float(strip(Without(Replaced(Without(raw_price.value, "€"), ",", "."), " ")))

\* the amount the loop adds to total for the category cat, in thousandths
Added(category_products, items, cat) ==
    LET prods == category_products[cat] IN
    IF prods = <<>> THEN 0
    ELSE LET selected_name == IF items # {} THEN DictGet(items, cat)
                              ELSE prods[1].name
             found == {k \in DOMAIN prods : prods[k].name = selected_name}
             selected == IF found # {}
                         THEN prods[CHOOSE k \in found : \A j \in found : k <= j]
                         ELSE prods[1]
             price == PriceOfRaw(selected.price)
         IN IF price = NoPrice \/ price = NaN THEN 0
            ELSE IF cat \notin EXCLUDED_CATEGORIES THEN Mills(price)
            ELSE 0

RECURSIVE TotalUpTo(_, _, _)
TotalUpTo(category_products, items, n) ==
    IF n = 0 THEN 0
    ELSE TotalUpTo(category_products, items, n - 1)
             + Added(category_products, items, SummaryCategories[n])

\* compute_summary_total(category_products, selections), in hundredths
compute_summary_total(category_products, selections) ==
    LET items == IF selections.is_none THEN {} ELSE selections.items
    IN <<round2(TotalUpTo(category_products, items, Len(SummaryCategories))), 2>>

InitTotal ==
    /\ InitIdle
    /\ arg \in {[category_products |-> cp, selections |-> sel] :
                   cp \in CategoryProducts, sel \in SelectionArgs}
    /\ result = Pending

ComputeTotal ==
    /\ result = Pending
    /\ result' = compute_summary_total(arg.category_products, arg.selections)
    /\ UNCHANGED <<arg, malfunctioning_links, linkHist, now, cache, callCount,
                   imported, lastOp, workers, ci>>
    /\ UNCHANGED dbVars
    /\ UNCHANGED runVars

NextTotal == ComputeTotal

SpecTotal == InitTotal /\ [][NextTotal]_vars

(* -------------------- C20: total of the selection --------------------- *)
\* the prices of the products, in thousandths
ListedMills(name) ==
    CASE name = "A" -> 200004 [] name = "B" -> 150500 [] name = "C" -> 9998
      [] name = "K" -> 999990

\* the product of a category that counts: the one selections names when the
\* category lists it, the first one otherwise
Chosen(cat) ==
    LET prods == arg.category_products[cat]
        named == {it \in arg.selections.items : it[1] = cat}
        listed == {k \in DOMAIN prods : \E it \in named : prods[k].name = it[2]}
    IN IF listed # {} THEN prods[CHOOSE k \in listed : TRUE] ELSE prods[1]

\* the sum over the counted categories, in thousandths
ChosenSum ==
    LET Part(cat) == IF arg.category_products[cat] = <<>> THEN 0
                     ELSE ListedMills(Chosen(cat).name)
    IN Part("CPU") + Part("GPU")

\* C20: compute_summary_total returns, rounded to 2 decimals, the sum over
\* the categories other than "Upgrade Kit" of the price of one product per
\* category: the one named by selections[category] when the category lists
\* it, the first product otherwise; "Upgrade Kit" products add nothing
C20_SummaryTotal ==
    result # Pending =>
        /\ result[2] = 2
        /\ 10 * result[1] - ChosenSum \in -4 .. 4

\* a total over a selected second product, with a kit listed and selected,
\* that rounding to 2 decimals moved up
C20_Witness ==
    /\ result # Pending
    /\ <<"CPU", "B">> \in arg.selections.items
    /\ <<"Upgrade Kit", "K">> \in arg.selections.items
    /\ Len(arg.category_products["CPU"]) = 2
    /\ arg.category_products["CPU"][2].name = "B"
    /\ arg.category_products["GPU"] # <<>>
    /\ arg.category_products["Upgrade Kit"] # <<>>
    /\ 10 * result[1] > ChosenSum

(* ------------------------- selector extraction ------------------------ *)
MaxElems == 2

\* site_selectors, most specific first
site_selectors == <<"s1", "s2">>

\* the texts an element matched by a selector may hold
ElemTexts ==
    {<<"N", "/", "A">>, <<"1", "2", ",", "5">>, <<"9", " ", "€">>, <<"0">>}

\* a parsed document: for each selector the texts of the elements it matches,
\* in document order
Soups ==
    [{"s1", "s2"} -> UNION {[1 .. n -> ElemTexts] : n \in 0 .. MaxElems}]

ExtractStages ==
    {"get_price_requests", "get_price_playwright",
     "extract_price_for_site:requests", "extract_price_for_site:playwright"}

\* `if price:` on what clean_price returns: None and 0.0 are false
Truthy(price) ==
    IF price = NoPrice THEN FALSE
    ELSE IF price = NaN THEN TRUE
    ELSE price[1] # 0

\* get_price_requests(url, site_selectors) on a 200 response parsed as soup
RECURSIVE requests_from(_, _)
requests_from(soup, k) ==
    IF k > Len(site_selectors) THEN NoPrice
    ELSE LET elems == soup[site_selectors[k]] IN
         IF elems # <<>> THEN clean_price(elems[1])
         ELSE requests_from(soup, k + 1)

get_price_requests(soup) == requests_from(soup, 1)

\* extract_price_from_elems(price_elems, is_topachat = False)
RECURSIVE extract_price_from_elems(_)
extract_price_from_elems(price_elems) ==
    IF price_elems = <<>> THEN NoPrice
    ELSE IF Truthy(clean_price(Head(price_elems)))
    THEN clean_price(Head(price_elems))
    ELSE extract_price_from_elems(Tail(price_elems))

\* get_price_playwright(url, site_selectors) on the rendered content as soup
RECURSIVE playwright_from(_, _)
playwright_from(soup, k) ==
    IF k > Len(site_selectors) THEN NoPrice
    ELSE LET price == extract_price_from_elems(soup[site_selectors[k]]) IN
         IF price # NoPrice THEN price ELSE playwright_from(soup, k + 1)

get_price_playwright(soup) == playwright_from(soup, 1)

\* extract_price_for_site(soup, url, site_selectors, method) for a site
\* without special handling: the price, NoPrice for the empty dict
RECURSIVE site_from(_, _, _)
site_from(soup, method, k) ==
    IF k > Len(site_selectors) THEN NoPrice
    ELSE LET elems == soup[site_selectors[k]]
             price == IF method = "requests"
                      THEN IF elems # <<>> /\ Truthy(clean_price(elems[1]))
                           THEN clean_price(elems[1]) ELSE NoPrice
                      ELSE extract_price_from_elems(elems)
         IN IF price # NoPrice THEN price ELSE site_from(soup, method, k + 1)

extract_price_for_site(soup, method) == site_from(soup, method, 1)

InitExtract ==
    /\ InitIdle
    /\ arg \in [soup : Soups, stage : ExtractStages]
    /\ result = Pending

ExtractFrame ==
    /\ UNCHANGED <<arg, malfunctioning_links, linkHist, now, cache, callCount,
                   imported, lastOp, workers, ci>>
    /\ UNCHANGED dbVars
    /\ UNCHANGED runVars

ExtractRequests ==
    /\ result = Pending /\ arg.stage = "get_price_requests"
    /\ result' = get_price_requests(arg.soup)
    /\ ExtractFrame

ExtractPlaywright ==
    /\ result = Pending /\ arg.stage = "get_price_playwright"
    /\ result' = get_price_playwright(arg.soup)
    /\ ExtractFrame

ExtractForSite ==
    /\ result = Pending
    /\ \E method \in {"requests", "playwright"} :
          /\ arg.stage = "extract_price_for_site:" \o method
          /\ result' = extract_price_for_site(arg.soup, method)
    /\ ExtractFrame

NextExtract == ExtractRequests \/ ExtractPlaywright \/ ExtractForSite

SpecExtract == InitExtract /\ [][NextExtract]_vars

(* --------------------- C21: first parsable match ---------------------- *)
\* the texts matched, selector after selector, each in document order
RECURSIVE MatchesFrom(_, _)
MatchesFrom(soup, k) ==
    IF k > Len(site_selectors) THEN <<>>
    ELSE soup[site_selectors[k]] \o MatchesFrom(soup, k + 1)

\* the text parses as a currency value
Parses(text) ==
    /\ Chars(text) \subseteq DigitChars \cup {",", ".", "€", " "}
    /\ Chars(text) \cap DigitChars # {}

\* the result is the price of the first match that parses, None when no
\* match parses; a text parsing as zero counts as no price
FirstNonZero(soup, price) ==
    LET ms == MatchesFrom(soup, 1)
        ok == {k \in DOMAIN ms : Parses(ms[k]) /\ clean_price(ms[k])[1] # 0}
    IN IF ok = {} THEN price = NoPrice
       ELSE price = clean_price(ms[CHOOSE k \in ok : \A j \in ok : k <= j])

\* the browser stage returns the first match that parses as a non-zero price
BrowserStageFirstNonZero ==
    (result # Pending /\ arg.stage \in {"get_price_playwright",
                                        "extract_price_for_site:playwright"})
        => FirstNonZero(arg.soup, result)

\* C21: extraction returns the price of the first selector match whose text
\* parses as a currency value; a match that fails to parse does not end the
\* search, the remaining elements and the later selectors are still tried,
\* in the HTTP stage and in the browser stage
C21_FirstParsableMatch ==
    result # Pending => FirstNonZero(arg.soup, result)

(* --------------------------- a run is killed -------------------------- *)
\* the process of main() is killed from outside (CI timeout): its locals are
\* gone, what the database holds stays
Kill ==
    /\ pc \in {"scrape", "save"}
    /\ pc' = "idle"
    /\ UNCHANGED <<now, run, cache, callCount, imported, lastOp, successLog>>
    /\ UNCHANGED dbVars
    /\ UNCHANGED auxVars

NextKill == Tick \/ StartRun \/ ScrapeRow \/ EndScrape \/ SaveRow \/ EndRun \/ Kill

SpecKill == InitRun /\ [][NextKill]_vars

(* ---------------------- C22: commit per fetch ------------------------- *)
\* C22: once a run is over, killed or not, every URL it fetched with a price
\* has its price_history row of that run and its cache update, so that it is
\* not fetched again within the TTL
C22_CommittedPerFetch ==
    pc = "idle" =>
        \A f \in run.fetches :
            f.price_info # None =>
                /\ \E h \in price_history : h.id >= run.hist0 /\ h.url = f.url
                /\ now < f.at + cache_duration_hours
                       => is_url_cached(cache, f.url, now)

(* ------------------------- concurrent runs ---------------------------- *)
Workers == {1, 2}

\* the locals of a run of main() that has not started
IdleWorker == [pc |-> "idle", rows |-> <<>>, i |-> 1, j |-> 1,
               updated_rows |-> <<>>, fetches |-> {}]

InitWorkers ==
    LET r == sync_products(EmptyDb, CHOOSE c \in SeedCatalogs : TRUE) IN
    /\ workers = [w \in Workers |-> IdleWorker]
    /\ ci = NoMonitor
    /\ malfunctioning_links = {} /\ linkHist = {} /\ arg = <<>> /\ result = NULL
    /\ now = 0
    /\ cache = {}
    /\ callCount = [u \in Urls |-> 0]
    /\ lastOp = NoOp
    /\ imported = NoImport
    /\ pc = "idle"
    /\ run = NoRun
    /\ successLog = {}
    /\ products = r.db.products
    /\ urls = r.db.urls
    /\ price_history = r.db.price_history
    /\ product_issues = r.db.product_issues
    /\ next_id = r.db.next_id

WorkerFrame ==
    /\ UNCHANGED <<now, callCount, imported, lastOp>>
    /\ UNCHANGED <<malfunctioning_links, linkHist, arg, result, ci>>
    /\ UNCHANGED runVars

\* main() of run w: list the products to scrape
WorkerStart(w) ==
    /\ workers[w].pc = "idle"
    /\ workers[w].rows = <<>>
    /\ workers' = [workers EXCEPT ![w].pc = "scrape",
                                  ![w].rows = get_products_to_scrape(Db)]
    /\ UNCHANGED cache
    /\ UNCHANGED dbVars
    /\ WorkerFrame

\* scrape_products of run w: one iteration, is_url_cached then the fetch
WorkerScrapeRow(w) ==
    /\ workers[w].pc = "scrape"
    /\ workers[w].i <= Len(workers[w].rows)
    /\ LET name == workers[w].rows[workers[w].i][1]
           url == workers[w].rows[workers[w].i][2]
       IN IF ShouldSkip(cache, url, now)
          THEN workers' = [workers EXCEPT ![w].i = @ + 1]
          ELSE \E outcome \in Prices \cup {None} :
                 LET r == process_product_row_db(url, outcome) IN
                 workers' = [workers EXCEPT
                     ![w].i = @ + 1,
                     ![w].fetches = IF r.fetched
                                    THEN @ \cup {[url |-> url, at |-> now]}
                                    ELSE @,
                     ![w].updated_rows =
                         IF r.price_info # None
                         THEN Append(@, [name |-> name, url |-> url,
                                         price |-> r.price_info])
                         ELSE @]
    /\ UNCHANGED cache
    /\ UNCHANGED dbVars
    /\ WorkerFrame

\* scrape_products of run w returns
WorkerEndScrape(w) ==
    /\ workers[w].pc = "scrape"
    /\ workers[w].i > Len(workers[w].rows)
    /\ workers' = [workers EXCEPT ![w].pc = "save"]
    /\ UNCHANGED cache
    /\ UNCHANGED dbVars
    /\ WorkerFrame

\* save_scraping_results of run w: one iteration, add_price_entry then
\* update_cache
WorkerSaveRow(w) ==
    /\ workers[w].pc = "save"
    /\ workers[w].j <= Len(workers[w].updated_rows)
    /\ LET row == workers[w].updated_rows[workers[w].j]
           r == add_price_entry(Db, row.name, row.url, row.price, now)
       IN /\ SetDb(r[1])
          /\ cache' = update_cache(cache, row.url, r[2], NULL, now)
    /\ workers' = [workers EXCEPT ![w].j = @ + 1]
    /\ WorkerFrame

\* save_scraping_results of run w returns and its main ends
WorkerEnd(w) ==
    /\ workers[w].pc = "save"
    /\ workers[w].j > Len(workers[w].updated_rows)
    /\ workers' = [workers EXCEPT ![w].pc = "idle"]
    /\ UNCHANGED cache
    /\ UNCHANGED dbVars
    /\ WorkerFrame

NextWorkers ==
    \E w \in Workers :
        \/ WorkerStart(w)
        \/ WorkerScrapeRow(w)
        \/ WorkerEndScrape(w)
        \/ WorkerSaveRow(w)
        \/ WorkerEnd(w)

SpecWorkers == InitWorkers /\ [][NextWorkers]_vars

(* ------------------ C23: one fetch per cache window ------------------- *)
\* C23: when two runs execute concurrently on one database, no URL is
\* fetched by both of them within one cache window
C23_OneFetchPerWindow ==
    \A v, w \in Workers :
        v # w =>
            \A f \in workers[v].fetches, g \in workers[w].fetches :
                f.url = g.url =>
                    \/ f.at >= g.at + cache_duration_hours
                    \/ g.at >= f.at + cache_duration_hours

(* ------------------ the legacy manager's issue methods ---------------- *)
\* resolve_product_issue(issue_id) of the legacy manager: the UPDATE is
\* executed on a connection that is closed without commit
legacy_resolve_product_issue(db, issue_id) ==
    LET conn == [committed |-> db, pending |-> resolve_product_issue(db, issue_id)]
    IN conn.committed

\* the body of the loop of the legacy auto_handle_critical_issues
legacy_HandleIssue(db, issue, auto_remove) ==
    IF issue.issue_type = "404_error" /\ auto_remove
    THEN remove_product_completely(db, issue.product_id)[1]
    ELSE IF issue.issue_type = "name_mismatch"
    THEN LET d == deactivate_product_url(db, issue.url) IN
         IF d[2] THEN legacy_resolve_product_issue(d[1], issue.id) ELSE d[1]
    ELSE db

RECURSIVE legacy_HandleAll(_, _, _)
legacy_HandleAll(db, order, auto_remove) ==
    IF order = <<>> THEN db
    ELSE legacy_HandleAll(legacy_HandleIssue(db, Head(order), auto_remove),
                          Tail(order), auto_remove)

\* auto_handle_critical_issues(auto_remove) of the legacy manager
legacy_auto_handle_critical_issues(db, order, auto_remove) ==
    LET critical == SelectSeq(order,
                       LAMBDA i : i.issue_type \in {"404_error", "name_mismatch"})
    IN legacy_HandleAll(db, critical, auto_remove)

LegacyFrame ==
    /\ UNCHANGED <<now, cache, callCount>>
    /\ UNCHANGED runVars
    /\ UNCHANGED auxVars

\* resolve_product_issue(issue_id) of the legacy manager
ResolveIssueLegacy ==
    \E issue_id \in 1 .. MaxIssues :
        /\ lastOp.n < MaxLegacyCalls
        /\ SetDb(legacy_resolve_product_issue(Db, issue_id))
        /\ lastOp' = [op |-> "resolve_product_issue", n |-> lastOp.n + 1,
                      issue_id |-> issue_id]
        /\ UNCHANGED imported
        /\ LegacyFrame

\* auto_handle_critical_issues(auto_remove) of the legacy manager
AutoHandleLegacy ==
    \E auto_remove \in BOOLEAN,
       order \in DetectedAtDesc(get_product_issues(Db, FALSE)) :
        /\ lastOp.n < MaxLegacyCalls
        /\ SetDb(legacy_auto_handle_critical_issues(Db, order, auto_remove))
        /\ lastOp' = [op |-> "auto_handle_critical_issues", n |-> lastOp.n + 1,
                      order |-> order, auto_remove |-> auto_remove]
        /\ imported' = IF products' = products THEN imported ELSE NoImport
        /\ LegacyFrame

\* a database written through the migrated manager, the legacy manager's
\* issue methods being called on it
NextLegacy == LogIssue \/ LogIssueLegacy \/ ResolveIssueLegacy \/ AutoHandleLegacy

SpecLegacy == InitRun /\ [][NextLegacy]_vars

(* ------------------- C24: migrated equals legacy ---------------------- *)
\* the step is a call of the legacy method op
LegacyCall(op) == lastOp'.n = lastOp.n + 1 /\ lastOp'.op = op

\* C24: the legacy manager and the migrated manager are equivalent: called
\* on the same database with the same arguments, a method of one leaves the
\* persisted state the method of the other leaves
C24_MigratedEqualsLegacy ==
    [][/\ LegacyCall("log_product_issue") =>
             Db' = log_product_issue(Db, lastOp'.product_id, lastOp'.url,
                                     lastOp'.issue_type, now)
       /\ LegacyCall("resolve_product_issue") =>
             Db' = resolve_product_issue(Db, lastOp'.issue_id)
       /\ LegacyCall("auto_handle_critical_issues") =>
             Db' = auto_handle_critical_issues(Db, lastOp'.order,
                                               lastOp'.auto_remove)]_vars

\* the remediation methods of the legacy manager alone leave what those of
\* the migrated manager leave, up to the rows resolve_product_issue marks
LegacyRemediationUpToResolved ==
    [][LegacyCall("auto_handle_critical_issues") =>
          LET m == auto_handle_critical_issues(Db, lastOp'.order, lastOp'.auto_remove)
          IN /\ products' = m.products /\ urls' = m.urls
             /\ price_history' = m.price_history
             /\ {i.id : i \in product_issues'} = {i.id : i \in m.product_issues}]_vars

(* ------------------------- import_from_json --------------------------- *)
MaxEntries == 2
MaxUrlsPerEntry == 2

\* str(...).strip() on the names of the payloads
StripName(name) ==
    CASE name = " A" -> "A" [] name = "  " -> "" [] OTHER -> name

\* RE_URL.search(su): the text starts with http:// or https://
RE_URL_search(su) == su \in Urls \cup {"http://example.com/a"}

\* the entries of a products.json document; an entry without the key "name"
\* has has_name FALSE
RawEntries ==
    {[has_name |-> h, name |-> n, category |-> "CPU", urls |-> us] :
        h \in BOOLEAN, n \in {"A", " A", "  ", "B"},
        us \in UNION {[1 .. k -> {UrlAmazon, "ftp://files/a"}] :
                         k \in 0 .. MaxUrlsPerEntry}}

\* the documents: version, and products as a list or as something else
Payloads ==
    {[version |-> v, is_list |-> l, products |-> ps] :
        v \in {1, 2}, l \in BOOLEAN,
        ps \in UNION {[1 .. k -> {e \in RawEntries : e.has_name \/ e.name = "A"}] :
                         k \in 0 .. MaxEntries}}

\* the loop of validate_products_payload from entry k on, normed and seen
\* being what the entries before gave: [raised, products]
RECURSIVE ValidateFrom(_, _, _, _)
ValidateFrom(entries, k, normed, seen) ==
    IF k > Len(entries) THEN [raised |-> FALSE, products |-> normed]
    ELSE LET entry == entries[k]
             name == StripName(IF entry.has_name THEN entry.name ELSE "")
         IN IF name = "" THEN [raised |-> TRUE, products |-> normed]
            ELSE IF name \in seen THEN [raised |-> TRUE, products |-> normed]
            ELSE IF entry.urls = <<>> THEN [raised |-> TRUE, products |-> normed]
            ELSE IF \E n \in DOMAIN entry.urls : ~RE_URL_search(entry.urls[n])
            THEN [raised |-> TRUE, products |-> normed]
            ELSE ValidateFrom(entries, k + 1,
                              Append(normed, [name |-> name,
                                              category |-> entry.category,
                                              urls |-> entry.urls]),
                              seen \cup {name})

\* validate_products_payload(data): [raised, products]
validate_products_payload(data) ==
    IF data.version # 1 THEN [raised |-> TRUE, products |-> <<>>]
    ELSE IF ~data.is_list \/ data.products = <<>>
    THEN [raised |-> TRUE, products |-> <<>>]
    ELSE ValidateFrom(data.products, 1, <<>>, {})

import_valid_entries(db, data) ==
    LET v == validate_products_payload(data) IN
    [raised |-> v.raised, db |-> sync_products(db, v.products).db]

\* import_from_json(db, path), the file holding data: [raised, db]
import_from_json(db, data) ==
    LET v == validate_products_payload(data) IN
    IF v.raised THEN [raised |-> TRUE, db |-> db]
    ELSE [raised |-> FALSE, db |-> sync_products(db, v.products).db]

InitImport ==
    \E data \in Payloads, db \in {EmptyDb, sync_products(EmptyDb, CHOOSE c \in SeedCatalogs : TRUE).db} :
        /\ arg = [data |-> data, db |-> db]
        /\ result = "pending"
        /\ workers = <<>> /\ malfunctioning_links = {} /\ linkHist = {}
        /\ ci = NoMonitor
        /\ now = 0 /\ cache = {} /\ callCount = [u \in Urls |-> 0]
        /\ lastOp = NoOp /\ imported = NoImport
        /\ pc = "idle" /\ run = NoRun /\ successLog = {}
        /\ products = db.products
        /\ urls = db.urls
        /\ price_history = db.price_history
        /\ product_issues = db.product_issues
        /\ next_id = db.next_id

ImportFromJson ==
    /\ result = "pending"
    /\ LET r == import_from_json(Db, arg.data) IN
          /\ SetDb(r.db)
          /\ result' = IF r.raised THEN "ProductValidationError" ELSE "returned"
    /\ UNCHANGED <<arg, malfunctioning_links, linkHist, now, cache, callCount,
                   imported, lastOp, workers, ci>>
    /\ UNCHANGED runVars

NextImport == ImportFromJson

SpecImport == InitImport /\ [][NextImport]_vars

(* --------------------- C25: invalid payloads -------------------------- *)
\* the document is one the claim lists: not version 1, products empty or not
\* a list, an entry without a name, a name given twice, an empty urls list,
\* a URL that does not start with http:// or https://
InvalidPayload(data) ==
    \/ data.version # 1
    \/ ~data.is_list
    \/ data.products = <<>>
    \/ \E k \in DOMAIN data.products :
          LET e == data.products[k] IN
          \/ ~e.has_name
          \/ e.name = "  "
          \/ \E j \in DOMAIN data.products : j # k /\ data.products[j].name = e.name
                                            /\ data.products[j].has_name /\ e.has_name
          \/ e.urls = <<>>
          \/ \E n \in DOMAIN e.urls : e.urls[n] = "ftp://files/a"

\* C25: import_from_json of an invalid document raises
\* ProductValidationError and leaves the products and urls tables as they
\* were, the valid entries of the document included
C25_InvalidPayloadRejected ==
    (result # "pending" /\ InvalidPayload(arg.data)) =>
        /\ result = "ProductValidationError"
        /\ products = arg.db.products
        /\ urls = arg.db.urls

\* a version 1 document whose first entry is a valid new product and whose
\* second entry has a bad URL was rejected on the empty database
C25_Witness ==
    /\ result = "ProductValidationError"
    /\ arg.db = EmptyDb
    /\ arg.data.version = 1 /\ arg.data.is_list
    /\ Len(arg.data.products) = 2
    /\ arg.data.products[1] = [has_name |-> TRUE, name |-> "A", category |-> "CPU",
                               urls |-> <<UrlAmazon>>]
    /\ arg.data.products[2].urls = <<"ftp://files/a">>
    /\ products = {} /\ urls = {}

(* ------------- C26: remediation and the next catalog sync ------------- *)
MaxResyncId == 3

\* import_from_json(db, path) of the one catalog file, run after run
ImportAgain ==
    \E catalog \in SeedCatalogs :
        /\ next_id.products + Cardinality(NewNames(Db, catalog)) <= MaxResyncId + 1
        /\ LET r == sync_products(Db, catalog) IN
             /\ SetDb(r.db)
             /\ imported' = [catalog |-> catalog, new_products |-> r.new_products,
                             new_urls |-> r.new_urls]
        /\ UNCHANGED <<now, cache, callCount, lastOp>>
        /\ UNCHANGED runVars
        /\ UNCHANGED auxVars

NextResync == ImportAgain \/ LogIssue \/ AutoHandle

SpecResync == Init /\ [][NextResync]_vars

\* the names of the products table and the URLs of the urls table
ProductNames(ps) == {p.name : p \in ps}
UrlsOf(us) == {u.url : u \in us}

\* a sync of the catalog leaves every inactive urls row inactive
DeactivatedStaysInactive ==
    [][ImportStep =>
          \A u \in urls : ~u.active =>
              \E v \in urls' : v.url = u.url /\ v.product_id = u.product_id
                               /\ ~v.active]_vars

\* a sync of the catalog that was imported before creates no product and no
\* URL: what the catalog names and the database lacks was removed by the 404
\* remediation, the only operation here that deletes
RemovedStaysRemoved ==
    [][(ImportStep /\ next_id.products > 1) =>
          /\ ProductNames(products') = ProductNames(products)
          /\ UrlsOf(urls') = UrlsOf(urls)]_vars

\* C26: a product deleted by the 404 auto-remediation stays deleted across
\* later runs: a later sync of the unchanged catalog brings back neither the
\* product nor its URLs, whereas a URL deactivated by the name_mismatch
\* remediation stays inactive after such a sync
C26_RemediationSurvivesSync ==
    [][(ImportStep /\ next_id.products > 1) =>
          /\ ProductNames(products') = ProductNames(products)
          /\ UrlsOf(urls') = UrlsOf(urls)
          /\ \A u \in urls : ~u.active =>
                \E v \in urls' : v.url = u.url /\ ~v.active]_vars

(* ------------- C27: nothing critical is left unresolved --------------- *)
CriticalTypes == {"404_error", "name_mismatch"}

\* C27: after auto_handle_critical_issues(auto_remove=True) returns,
\* get_product_issues(resolved=False) contains no 404_error and no
\* name_mismatch issue, whatever issues were logged
C27_NoCriticalLeft ==
    [][AutoHandleWith(TRUE) =>
          \A i \in get_product_issues(Db, FALSE)' :
              i.issue_type \notin CriticalTypes]_vars

\* the same for the 404_error issues alone
No404Left ==
    [][AutoHandleWith(TRUE) =>
          \A i \in get_product_issues(Db, FALSE)' :
              i.issue_type # "404_error"]_vars

\* the name_mismatch issues left unresolved are those whose URL has no urls
\* row when the call returns
NoMismatchLeftOnKnownUrl ==
    [][AutoHandleWith(TRUE) =>
          \A i \in get_product_issues(Db, FALSE)' :
              i.issue_type = "name_mismatch" => ~\E u \in urls' : u.url = i.url]_vars

(* ------------------- C28: next_retry of cache rows -------------------- *)
\* C28: in every reachable cache state a failed entry has a non-null
\* next_retry, and the entry a success without explicit next_retry has just
\* written has next_retry null
C28_NextRetryByStatus ==
    /\ \A r \in cache : r.status = "failed" => r.next_retry # NULL
    /\ (lastOp.op = "update_cache" /\ lastOp.success /\ lastOp.explicit = NULL) =>
          \A r \in CacheRows(cache, lastOp.url) :
              r.status = "success" /\ r.next_retry = NULL

\* one URL has a failed entry with the computed next_retry of its second
\* failure, and the other URL has just been written by a success without
\* next_retry over an earlier failed entry
C28_Witness ==
    /\ lastOp.op = "update_cache" /\ lastOp.success /\ lastOp.explicit = NULL
    /\ \E r \in CacheRows(cache, lastOp.url) :
          r.attempts = 2 /\ r.next_retry = NULL
    /\ \E r \in cache :
          /\ r.url # lastOp.url /\ r.status = "failed" /\ r.attempts = 2
          /\ r.next_retry = r.last_scraped + backoff_hours(2)

(* ---------------------- check_product_mismatch ------------------------ *)
MaxNameWords == 2

\* the Idealo URLs the check is applied to, and a URL that is not one
IdealoUrls ==
    {UrlIdealo,
     "https://www.idealo.fr/prix/2/intel-i7.html",
     "https://www.idealo.fr/prix/3/logitech-g-pro.html",
     "https://www.idealo.fr/prix/4/souris-gamer.html",
     UrlAmazon}

\* the product names extract_product_name_from_page may give, "" included
PageNames ==
    UNION {[1 .. k -> {"AMD", "Ryzen", "7", "Intel", "i7", "Logitech", "G"}] :
              k \in 0 .. MaxNameWords}

InitMismatch ==
    /\ InitIdle
    /\ arg \in [url : IdealoUrls, name : PageNames]
    /\ result = "pending"

CheckProductMismatch ==
    /\ result = "pending"
    /\ result' = IF check_product_mismatch(arg.url, arg.name)
                 THEN "mismatch" ELSE "no mismatch"
    /\ ExtractFrame

NextMismatch == CheckProductMismatch

SpecMismatch == InitMismatch /\ [][NextMismatch]_vars

(* ------------------ C29: when a mismatch is reported ------------------ *)
\* what the slug of the checked URL gives, and the words of the checked name
ExpectedOfArg == extract_product_info_from_url(arg.url)
NameOfArg == LowerWords(arg.name)
KeywordsOfArg ==
    {Lower(ExpectedOfArg.model_keywords[k]) : k \in DOMAIN ExpectedOfArg.model_keywords}

\* C29: check_product_mismatch never reports a mismatch for a page whose
\* name contains the brand of the URL slug and every model keyword of the
\* slug; it reports one only when a brand was detected, a page name was found
\* and the name lacks the brand or contains none of the model keywords
C29_MismatchOnlyWhenWrong ==
    result # "pending" =>
        /\ (ExpectedOfArg.brand \in NameOfArg /\ KeywordsOfArg \subseteq NameOfArg)
              => result = "no mismatch"
        /\ result = "mismatch" =>
              /\ ExpectedOfArg.brand # ""
              /\ arg.name # <<>>
              /\ \/ ExpectedOfArg.brand \notin NameOfArg
                 \/ KeywordsOfArg \cap NameOfArg = {}

\* the same with the model keywords of one or two characters left out of
\* the count
MismatchUpToShortKeywords ==
    LET long == {kw \in KeywordsOfArg : KeywordLen(kw) > 2} IN
    result # "pending" =>
        /\ (ExpectedOfArg.brand \in NameOfArg /\ KeywordsOfArg \subseteq NameOfArg
                /\ (KeywordsOfArg # {} => long # {}))
              => result = "no mismatch"
        /\ result = "mismatch" =>
              /\ ExpectedOfArg.brand # ""
              /\ arg.name # <<>>
              /\ \/ ExpectedOfArg.brand \notin NameOfArg
                 \/ long \cap NameOfArg = {}

(* ------------------------ scripts/ci_monitor.py ----------------------- *)
POLL_SECONDS == 60
MAX_MINUTES == 15

\* polls counted by the clock of the model; beyond MaxPolls the elapsed time
\* is past MAX_MINUTES whatever it is
MaxPolls == 16

Conclusions == {"success", "failure", "cancelled"}

\* what the API answers for the latest push run: no run, or its status and
\* conclusion
NoWorkflowRun == [status |-> "none", conclusion |-> ""]
WorkflowRuns ==
    {NoWorkflowRun,
     [status |-> "queued", conclusion |-> ""],
     [status |-> "in_progress", conclusion |-> ""]}
    \cup {[status |-> "completed", conclusion |-> c] : c \in Conclusions}

\* (time.time() - start) / 60.0 > MAX_MINUTES, the time being spent in sleeps
TimedOut(slept) == slept * POLL_SECONDS > MAX_MINUTES * 60

InitMonitor ==
    /\ \E r \in WorkflowRuns :
          ci = [run |-> r, pc |-> "poll", slept |-> 0, status |-> "",
                conclusion |-> "", code |-> NULL]
    /\ workers = <<>> /\ malfunctioning_links = {} /\ linkHist = {}
    /\ arg = <<>> /\ result = NULL
    /\ now = 0 /\ cache = {} /\ callCount = [u \in Urls |-> 0]
    /\ lastOp = NoOp /\ imported = NoImport
    /\ pc = "idle" /\ run = NoRun /\ successLog = {}
    /\ products = EmptyDb.products
    /\ urls = EmptyDb.urls
    /\ price_history = EmptyDb.price_history
    /\ product_issues = EmptyDb.product_issues
    /\ next_id = EmptyDb.next_id

MonitorFrame ==
    /\ UNCHANGED <<now, cache, callCount, imported, lastOp, malfunctioning_links,
                   linkHist, arg, result, workers>>
    /\ UNCHANGED dbVars
    /\ UNCHANGED runVars

\* GitHub: a push starts a new latest run
Push ==
    /\ ci.pc # "exited"
    /\ ci' = [ci EXCEPT !.run = [status |-> "queued", conclusion |-> ""]]
    /\ MonitorFrame

\* GitHub: the latest run starts or completes
RunProgress ==
    /\ ci.pc # "exited"
    /\ \/ /\ ci.run.status = "queued"
          /\ ci' = [ci EXCEPT !.run = [status |-> "in_progress", conclusion |-> ""]]
       \/ /\ ci.run.status \in {"queued", "in_progress"}
          /\ \E c \in Conclusions :
                ci' = [ci EXCEPT !.run = [status |-> "completed", conclusion |-> c]]
    /\ MonitorFrame

\* one pass of the loop of main() up to its sleep, or out of the loop to the
\* sys.exit that follows
Poll ==
    /\ ci.pc = "poll"
    /\ ci' =
         IF ci.run.status = "none"
         THEN [ci EXCEPT !.pc = "sleep"]
         ELSE LET seen == [ci EXCEPT !.status = ci.run.status,
                                     !.conclusion = ci.run.conclusion] IN
              IF ci.run.status = "completed"
              THEN [seen EXCEPT !.pc = "exited",
                                !.code = IF ci.run.conclusion = "success"
                                         THEN 0 ELSE 1]
              ELSE IF TimedOut(ci.slept)
              THEN [seen EXCEPT !.pc = "exited", !.code = 1]
              ELSE [seen EXCEPT !.pc = "sleep"]
    /\ MonitorFrame

\* time.sleep(POLL_SECONDS)
Sleep ==
    /\ ci.pc = "sleep"
    /\ ci' = [ci EXCEPT !.pc = "poll", !.slept = Min(@ + 1, MaxPolls)]
    /\ MonitorFrame

NextMonitor == Push \/ RunProgress \/ Poll \/ Sleep

SpecMonitor == InitMonitor /\ [][NextMonitor]_vars

\* the script is a running process: its API call returns and its sleep ends
SpecMonitorFair == SpecMonitor /\ WF_vars(Poll) /\ WF_vars(Sleep)

(* ------------------- C30: the monitor terminates ---------------------- *)
\* the exit code is 0 exactly when the run the last poll saw had completed
\* with conclusion success, and an exit without a completed run happens only
\* after MAX_MINUTES
ExitCodeRight ==
    ci.pc = "exited" =>
        /\ ci.code \in {0, 1}
        /\ ci.code = 0 <=> (ci.status = "completed" /\ ci.conclusion = "success")
        /\ ci.status # "completed" => TimedOut(ci.slept)

\* C30: the polling loop of the CI monitor always terminates: it exits 0 iff
\* the latest push run completes with conclusion success, exits 1 on any
\* other conclusion, and exits 1 once MAX_MINUTES have elapsed without a
\* completed run, including when no workflow run is found
C30_MonitorTerminates ==
    /\ []ExitCodeRight
    /\ <>(ci.pc = "exited")

\* the loop terminates when a workflow run is found from some poll on
TerminatesWhenRunFound ==
    <>[](ci.run.status # "none") => <>(ci.pc = "exited")

\* the exit codes are right in every run of the script
ExitCodesAlwaysRight == []ExitCodeRight

====
